---- MODULE Spec2Model ----
(***************************************************************************)
(* Detection-and-execution pipeline of the LastTick bot: the opportunity   *)
(* handler of index.ts, the OrderExecutor (sizing, direct execution and    *)
(* the execution queue), the PositionManager (risk gate, ledger,           *)
(* resolution, persistence), the PolymarketWebSocket feed (connection,     *)
(* subscriptions, reconnection) and the MarketScanner (watchlist).         *)
(*                                                                         *)
(* Fixed-point units.  Prices are in thousandths of a dollar per share,    *)
(* sizes in hundredths of a share, money (price x size) in 1e-5 dollar.    *)
(* Times are in milliseconds.  The arithmetic is exact where the code      *)
(* uses IEEE doubles.                                                      *)
(***************************************************************************)
EXTENDS Integers, Sequences, FiniteSets, TLC

VARIABLES
    now,              \* Date.now()
    canTrade,         \* clobService.isAuthenticated
    isEnabled,        \* OrderExecutor.isEnabled
    executionQueue,   \* OrderExecutor.executionQueue
    isProcessing,     \* OrderExecutor.isProcessing
    loops,            \* the processQueue invocations: position of each
    inflight,         \* placeOrder calls awaiting the venue's response
    nextTradeId,      \* generateTradeId: trade ids are fresh
    positions,        \* PositionManager.positions
    stats,            \* PositionManager.stats
    dailyPnL,         \* PositionManager.dailyPnL
    dailyStartDate,   \* PositionManager.dailyStartDate
    disk,             \* data/positions.json and data/stats.json
    lastOutcome,      \* what the bot logged last
    queuedCount,      \* number of queueOpportunity calls so far
    dequeueLog,       \* what processQueue did with each item it shifted
    resolveCalls,     \* number of resolvePosition calls so far
    ws,               \* PolymarketWebSocket.ws: the current socket
    orphans,          \* sockets no longer referenced by ws, handlers attached
    subscribedAssets, \* PolymarketWebSocket.subscribedAssets
    reconnectAttempts,\* PolymarketWebSocket.reconnectAttempts
    pingInterval,     \* PolymarketWebSocket.pingInterval is set
    isConnecting,     \* PolymarketWebSocket.isConnecting
    reconnectTimers,  \* attemptReconnect invocations waiting out their delay
    exhausted,        \* 'max_reconnect_failed' has been emitted
    hostCalls,        \* number of connect() calls by the host so far
    closesSinceOpen,  \* 'close' events since the last 'open' event
    watchedMarkets,   \* MarketScanner.watchedMarkets
    scansInFlight,    \* scan() invocations awaiting clobService.getMarkets
    lastScan,         \* the markets and time of the last completed scan
    isRunning,        \* OpportunityDetector.isRunning
    listeners,        \* 'price_change'/'book' listener pairs the detector registered
    books,            \* the venue's order book of each token
    bookFetches,      \* checkOrderBook chains awaiting clobService.getOrderBook
    lastAnalysis,     \* the last analyzeOpportunity call and what it emitted
    emitTotal,        \* 'opportunity' events emitted so far
    sameBookEmits,    \* per token, emissions since its book last changed
    execCalls,        \* executeOpportunity calls made through the executor's API
    lastCall,         \* the last such call: its opportunity, size and verdict
    sizings,          \* (expectedProfit, size) pairs calculateOrderSize produced
    execTrace,        \* submissions, events and returns of those calls, in order
    lastGate,         \* the last canOpenNewPosition call and its result
    scanInterval,     \* MarketScanner.scanInterval is set
    botStopped,       \* PolymarketArbitrageBot.stop() has run
    restarts,         \* PositionManager constructions after the first
    lastResolve,      \* the last resolvePosition call, if it found its position
    scanRuns,         \* the scan() invocations in start order: where each is
    ledgerEvents      \* the last event the PositionManager emitted, and how many

clockVars  == <<now>>
venueVars  == <<canTrade>>
lifeVars   == <<scanInterval, botStopped, restarts, lastResolve>>
obsVars    == <<scanRuns, ledgerEvents>>
execVars   == <<isEnabled, executionQueue, isProcessing, loops, inflight,
                nextTradeId>>
ledgerVars == <<positions, stats, dailyPnL, dailyStartDate, disk>>
ghostVars  == <<lastOutcome, queuedCount, dequeueLog, resolveCalls>>
feedVars   == <<ws, orphans, subscribedAssets, reconnectAttempts, pingInterval,
                isConnecting, reconnectTimers, exhausted, hostCalls,
                closesSinceOpen>>
scanVars   == <<watchedMarkets, scansInFlight, lastScan>>
detVars    == <<isRunning, listeners, books, bookFetches, lastAnalysis,
               emitTotal, sameBookEmits>>
callVars   == <<execCalls, lastCall, sizings, execTrace, lastGate>>
vars       == <<clockVars, venueVars, lifeVars, obsVars, callVars, detVars, execVars, ledgerVars, ghostVars,
                feedVars, scanVars>>

Min(a, b) == IF a <= b THEN a ELSE b

(***************************************************************************)
(* Configuration (config.ts).  Every value is read from the environment;   *)
(* the model runs the defaults, except MAX_TOTAL_EXPOSURE=250 (default     *)
(* 5000), which lets a ledger of two trades reach the ceiling.           *)
(***************************************************************************)
minProfitThreshold    == 500        \* 0.005 dollar
maxPositionSize       == 50000      \* 500 shares
maxTotalExposure      == 25000000   \* 250 dollars
defaultOrderSize      == 10000      \* 100 shares
minCertaintyPrice     == 980        \* 0.98
maxBuyPrice           == 995        \* 0.995
dailyLossLimit        == 50000000   \* 500 dollars
maxPositionsPerMarket == 1

(***************************************************************************)
(* Bounds of the model.                                                    *)
(***************************************************************************)
MaxTrades   == 2    \* trades created by executeOpportunity
MaxResolves == 2    \* resolvePosition calls
MaxQueued   == 3    \* queueOpportunity calls
MaxLoops    == 2    \* processQueue invocations the model can tell apart
MaxTime     == 7500 \* the executor's clock stops here

\* The venue: markets and their tokens, the best asks a book can show.
MarketIds == {"m1", "m2"}
TokensOf(m) == IF m = "m1" THEN {"t1", "t2"} ELSE {"t3"}
AskPrices == {980, 995}
AskSizes  == {100}
TickMs    == {2500}

HourMs == 3600000
DayMs  == 24 * HourMs
Today  == now \div DayMs     \* new Date().toDateString()

(***************************************************************************)
(* OpportunityDetector.analyzeOpportunity: the expected profit it puts in  *)
(* an Opportunity.                                                         *)
(***************************************************************************)
ExpectedProfit(bestAsk, askSize) ==
    (1000 - bestAsk) * Min(askSize, maxPositionSize)

Opportunity(m, tok, bestAsk, askSize) ==
    [marketId       |-> m,
     tokenId        |-> tok,
     currentPrice   |-> bestAsk,
     expectedProfit |-> ExpectedProfit(bestAsk, askSize),
     timestamp      |-> now]

(***************************************************************************)
(* OrderExecutor.calculateOrderSize.  profitMultiplier is the rational     *)
(* expectedProfit / minProfitThreshold; orderSize is kept as the rational  *)
(* num / minProfitThreshold until the final Math.floor(orderSize * 100).   *)
(***************************************************************************)
CalculateOrderSize_NoCap(opportunity) ==
    LET ep  == opportunity.expectedProfit
        num == IF ep > minProfitThreshold
               THEN defaultOrderSize * ep
               ELSE defaultOrderSize * minProfitThreshold
        capped == IF num > maxPositionSize * minProfitThreshold
                  THEN maxPositionSize * minProfitThreshold
                  ELSE num
    IN  capped \div minProfitThreshold

CalculateOrderSize_Stateful(opportunity) == defaultOrderSize * nextTradeId

CalculateOrderSize(opportunity) ==
    LET ep  == opportunity.expectedProfit
        num == IF ep > minProfitThreshold
               THEN IF ep < 2 * minProfitThreshold
                    THEN defaultOrderSize * ep
                    ELSE defaultOrderSize * 2 * minProfitThreshold
               ELSE defaultOrderSize * minProfitThreshold
        capped == IF num > maxPositionSize * minProfitThreshold
                  THEN maxPositionSize * minProfitThreshold
                  ELSE num
    IN  capped \div minProfitThreshold

(***************************************************************************)
(* PositionManager: reads.                                                 *)
(***************************************************************************)
RECURSIVE SumCost(_, _)
SumCost(ps, ids) ==
    IF ids = {} THEN 0
    ELSE LET id == CHOOSE i \in ids : TRUE
         IN  ps[id].entryPrice * ps[id].size + SumCost(ps, ids \ {id})

GetOpenPositions == {id \in DOMAIN positions : positions[id].status = "OPEN"}

GetTotalExposure == SumCost(positions, GetOpenPositions)

CanOpenNewPosition_Strict(size, price) ==
    LET newExposure == GetTotalExposure + size * price
    IN  IF newExposure >= maxTotalExposure THEN FALSE
        ELSE IF dailyPnL <= -dailyLossLimit THEN FALSE
        ELSE TRUE

CanOpenNewPosition(size, price) ==
    LET newExposure == GetTotalExposure + size * price
    IN  IF newExposure > maxTotalExposure THEN FALSE
        ELSE IF dailyPnL < -dailyLossLimit THEN FALSE
        ELSE TRUE

GetPositionsByMarket(marketId) ==
    {id \in DOMAIN positions :
        positions[id].marketId = marketId /\ positions[id].status = "OPEN"}

(***************************************************************************)
(* PositionManager: writes.  Each yields the new value of one field.       *)
(***************************************************************************)
CheckDailyResetPnL  == IF Today # dailyStartDate THEN 0 ELSE dailyPnL
CheckDailyResetDate == IF Today # dailyStartDate THEN Today ELSE dailyStartDate

\* JSON.stringify writes a Date as its ISO string, new Date reads it back.
ToISOString(t) == [iso |-> t]
ParseDate(str) == str.iso

\* Array.from(positions.values()): a Map lists its values in insertion
\* order, which is the order of the trade ids.
RECURSIVE MapValues(_, _)
MapValues(ps, ids) ==
    IF ids = {} THEN <<>>
    ELSE LET id == CHOOSE i \in ids : \A j \in ids : i <= j
         IN  <<ps[id]>> \o MapValues(ps, ids \ {id})

PositionToJson(position) ==
    [position EXCEPT !.timestamp = ToISOString(position.timestamp)]

PositionsData_OpenOnly(ps) ==
    LET values == MapValues(ps, {id \in DOMAIN ps : ps[id].status = "OPEN"})
    IN  [i \in DOMAIN values |-> PositionToJson(values[i])]

PositionsData(ps) ==
    LET values == MapValues(ps, DOMAIN ps)
    IN  [i \in DOMAIN values |-> PositionToJson(values[i])]

SaveState(ps, st) == [positions |-> PositionsData(ps), stats |-> st]

\* saveState writes positions.json, then stats.json, inside try/catch: a
\* write that throws skips what follows it.  `written` is how far it got.
WriteOutcomes == {"both", "positions", "none"}

WriteFiles(old, ps, st, written) ==
    IF written = "both" THEN SaveState(ps, st)
    ELSE IF written = "positions"
         THEN [positions |-> PositionsData(ps), stats |-> old.stats]
         ELSE old

\* loadState: every saved position is set under its id, later entries over
\* earlier ones, its timestamp made a Date again.
LoadPositions_AllOpen(data) ==
    [id \in {data[i].id : i \in DOMAIN data} |->
        LET i == CHOOSE k \in DOMAIN data :
                    /\ data[k].id = id
                    /\ \A j \in DOMAIN data : data[j].id = id => j <= k
        IN  [data[i] EXCEPT !.timestamp = ParseDate(data[i].timestamp),
                            !.status = "OPEN"]]

LoadPositions(data) ==
    [id \in {data[i].id : i \in DOMAIN data} |->
        LET i == CHOOSE k \in DOMAIN data :
                    /\ data[k].id = id
                    /\ \A j \in DOMAIN data : data[j].id = id => j <= k
        IN  [data[i] EXCEPT !.timestamp = ParseDate(data[i].timestamp)]]

PositionOf(trade) ==
    [id         |-> trade.id,
     marketId   |-> trade.marketId,
     tokenId    |-> trade.tokenId,
     entryPrice |-> trade.price,
     size       |-> trade.size,
     timestamp  |-> trade.timestamp,
     status     |-> "OPEN"]

AddPositionWriting(trade, written) ==
    LET ps == [id \in DOMAIN positions \cup {trade.id} |->
                  IF id = trade.id THEN PositionOf(trade) ELSE positions[id]]
        st == [stats EXCEPT !.totalTrades = @ + 1]
    IN  /\ dailyPnL' = CheckDailyResetPnL
        /\ dailyStartDate' = CheckDailyResetDate
        /\ positions' = ps
        /\ stats' = st
        /\ disk' = WriteFiles(disk, ps, st, written)

AddPosition(trade) == AddPositionWriting(trade, "both")

ResolvedStats_StaleCounts(st, pnl, isWinner) ==
    LET absPnl == IF pnl < 0 THEN -pnl ELSE pnl
        s1 == IF isWinner
              THEN [st EXCEPT !.winningTrades = @ + 1,
                              !.totalProfit = @ + pnl,
                              !.largestWin = IF pnl > @ THEN pnl ELSE @]
              ELSE [st EXCEPT !.losingTrades = @ + 1,
                              !.totalLoss = @ + absPnl,
                              !.largestLoss = IF absPnl > @ THEN absPnl ELSE @]
        totalResolved == st.winningTrades + st.losingTrades
    IN  [s1 EXCEPT
            !.winRate = IF totalResolved > 0
                        THEN [num |-> st.winningTrades * 100, den |-> totalResolved]
                        ELSE [num |-> 0, den |-> 1],
            !.averageProfit = IF totalResolved > 0
                        THEN [num |-> st.totalProfit - st.totalLoss,
                              den |-> totalResolved]
                        ELSE [num |-> 0, den |-> 1]]

ResolvedStats(st, pnl, isWinner) ==
    LET absPnl == IF pnl < 0 THEN -pnl ELSE pnl
        s1 == IF isWinner
              THEN [st EXCEPT !.winningTrades = @ + 1,
                              !.totalProfit = @ + pnl,
                              !.largestWin = IF pnl > @ THEN pnl ELSE @]
              ELSE [st EXCEPT !.losingTrades = @ + 1,
                              !.totalLoss = @ + absPnl,
                              !.largestLoss = IF absPnl > @ THEN absPnl ELSE @]
        totalResolved == s1.winningTrades + s1.losingTrades
    IN  [s1 EXCEPT
            !.winRate = IF totalResolved > 0
                        THEN [num |-> s1.winningTrades * 100, den |-> totalResolved]
                        ELSE [num |-> 0, den |-> 1],
            !.averageProfit = IF totalResolved > 0
                        THEN [num |-> s1.totalProfit - s1.totalLoss,
                              den |-> totalResolved]
                        ELSE [num |-> 0, den |-> 1]]

ResolutionPnL_NoCost(position, isWinner) ==
    IF isWinner THEN position.size * 1000 ELSE 0

\* pnl of a resolution, in 1e-5 dollar: a winner pays 1 dollar per share.
ResolutionPnL(position, isWinner) ==
    (IF isWinner THEN position.size * 1000 ELSE 0)
        - position.entryPrice * position.size

InitStats ==
    [totalTrades |-> 0, winningTrades |-> 0, losingTrades |-> 0,
     totalProfit |-> 0, totalLoss |-> 0,
     winRate |-> [num |-> 0, den |-> 1],
     averageProfit |-> [num |-> 0, den |-> 1],
     largestWin |-> 0, largestLoss |-> 0]

(***************************************************************************)
(* OrderExecutor.executeOpportunity, up to its await of placeOrder: either *)
(* it returns null or a PENDING trade is handed to clobService.placeOrder. *)
(***************************************************************************)
ExecuteReturnsNull_IgnoresDisabled(opportunity) ==
    \/ ~canTrade
    \/ CalculateOrderSize(opportunity) <= 0

ExecuteReturnsNull(opportunity) ==
    \/ ~isEnabled
    \/ ~canTrade
    \/ CalculateOrderSize(opportunity) <= 0

NewTrade(opportunity) ==
    [id        |-> nextTradeId,
     marketId  |-> opportunity.marketId,
     tokenId   |-> opportunity.tokenId,
     price     |-> opportunity.currentPrice,
     size      |-> CalculateOrderSize(opportunity),
     timestamp |-> now]

(***************************************************************************)
(* index.ts, the 'opportunity' handler.  The Detector emits only           *)
(* opportunities whose expected profit reaches minProfitThreshold.  The    *)
(* handler runs to its await of executeOpportunity; when that returns null *)
(* nothing else happens.                                                   *)
(***************************************************************************)
HandlerRiskGate_Skipped(opportunity) == TRUE

HandlerRiskGate(opportunity) ==
    CanOpenNewPosition(defaultOrderSize, opportunity.currentPrice)

OnOpportunity(m, tok, bestAsk, askSize) ==
    LET opportunity == Opportunity(m, tok, bestAsk, askSize)
    IN  /\ opportunity.expectedProfit >= minProfitThreshold
        /\ IF ~HandlerRiskGate(opportunity)
           THEN /\ lastOutcome' = "risk_limits"
                /\ UNCHANGED <<inflight, nextTradeId>>
           ELSE IF Cardinality(GetPositionsByMarket(m)) >= maxPositionsPerMarket
           THEN /\ lastOutcome' = "market_limit"
                /\ UNCHANGED <<inflight, nextTradeId>>
           ELSE IF ~canTrade
           THEN /\ lastOutcome' = "simulated"
                /\ UNCHANGED <<inflight, nextTradeId>>
           ELSE IF ExecuteReturnsNull(opportunity)
           THEN /\ lastOutcome' = "no_trade"
                /\ UNCHANGED <<inflight, nextTradeId>>
           ELSE /\ nextTradeId <= MaxTrades
                /\ lastOutcome' = "submitted"
                /\ inflight' = inflight \cup
                      {[trade |-> NewTrade(opportunity), via |-> 0]}
                /\ nextTradeId' = nextTradeId + 1
        /\ UNCHANGED <<clockVars, venueVars, lifeVars, obsVars, callVars, detVars, isEnabled, executionQueue,
                       isProcessing, loops, ledgerVars, queuedCount,
                       dequeueLog, resolveCalls, feedVars, scanVars>>

\* The venue answers a handler's order: executeOpportunity returns the trade,
\* MATCHED or FAILED, and the handler adds a position for a MATCHED one.
\* The bot logs the executor's trade_executed or trade_failed event.
HandlerAddsPosition_Always(status) == TRUE

HandlerAddsPosition(status) == status = "MATCHED"

HandlerOrderResponse(o, success) ==
    LET status == IF success THEN "MATCHED" ELSE "FAILED"
    IN  /\ o \in inflight
        /\ o.via = 0
        /\ inflight' = inflight \ {o}
        /\ lastOutcome' = IF success THEN "trade_executed" ELSE "trade_failed"
        /\ IF HandlerAddsPosition(status)
           THEN AddPosition(o.trade)
           ELSE UNCHANGED ledgerVars
        /\ UNCHANGED <<clockVars, venueVars, lifeVars, obsVars, callVars, detVars, isEnabled,
                       executionQueue, isProcessing, loops, nextTradeId,
                       queuedCount, dequeueLog, resolveCalls, feedVars,
                       scanVars>>

(***************************************************************************)
(* PositionManager.resolvePosition.                                        *)
(***************************************************************************)
\* Nothing emitted yet.
NoEvent == [count |-> 0, name |-> "none", id |-> 0]

\* No call yet, or a call that found no position of that id.
NoResolve == [positionId |-> 0, isWinner |-> FALSE]

ResolveWriting(positionId, isWinner, written) ==
    /\ resolveCalls < MaxResolves
    /\ resolveCalls' = resolveCalls + 1
    /\ lastResolve' = IF positionId \in DOMAIN positions
                      THEN [positionId |-> positionId, isWinner |-> isWinner]
                      ELSE NoResolve
    /\ IF positionId \notin DOMAIN positions
       THEN UNCHANGED ledgerVars
       ELSE LET position == positions[positionId]
                pnl == ResolutionPnL(position, isWinner)
                ps  == [positions EXCEPT ![positionId].status =
                           IF isWinner THEN "RESOLVED_WIN" ELSE "RESOLVED_LOSS"]
                st  == ResolvedStats(stats, pnl, isWinner)
            IN  /\ positions' = ps
                /\ stats' = st
                /\ dailyPnL' = dailyPnL + pnl
                /\ disk' = WriteFiles(disk, ps, st, written)
                /\ UNCHANGED dailyStartDate

ResolvePosition(positionId, isWinner) ==
    /\ ResolveWriting(positionId, isWinner, "both")
    /\ UNCHANGED <<clockVars, venueVars, scanInterval, botStopped, restarts, obsVars, callVars, detVars, execVars, lastOutcome, queuedCount,
                   dequeueLog, feedVars, scanVars>>

(***************************************************************************)
(* OrderExecutor.queueOpportunity and processQueue.                        *)
(***************************************************************************)
StaleMs       == 5000
SubmitDelayMs == 100

IsExpired_Inclusive(opportunity) == now - opportunity.timestamp >= StaleMs

IsExpired(opportunity) == now - opportunity.timestamp > StaleMs

LogEntry(opportunity, executed) ==
    [seq      |-> opportunity.seq,
     age      |-> now - opportunity.timestamp,
     executed |-> executed]

IdleLoop == [pc |-> "idle", until |-> 0]

\* executionQueue.pop() in place of shift()
Shift_Last(q) == [item |-> q[Len(q)], rest |-> SubSeq(q, 1, Len(q) - 1)]

\* executionQueue.shift()
Shift(q) == [item |-> Head(q), rest |-> Tail(q)]

\* The iterations of the while loop that end in `continue`, and the one after
\* them: the expired items dropped, then either the item handed to
\* executeOpportunity (found) or the empty queue.
RECURSIVE Drain(_)
Drain(q) ==
    IF Len(q) = 0
    THEN [dropped |-> <<>>, found |-> FALSE, item |-> IdleLoop, rest |-> <<>>]
    ELSE LET s == Shift(q)
         IN  IF IsExpired(s.item)
             THEN LET d == Drain(s.rest)
                  IN  [d EXCEPT !.dropped = <<LogEntry(s.item, FALSE)>> \o @]
             ELSE [dropped |-> <<>>, found |-> TRUE, item |-> s.item,
                   rest |-> s.rest]

\* processQueue's last line, reached when the while condition fails:
\* this.isProcessing = false.
FlagAfterDrain_Stuck == isProcessing

FlagAfterDrain == FALSE

\* The while loop of processQueue, run by invocation l from its condition to
\* its next await (or to its end), on queue q.
RunLoop(l, q) ==
    LET d == Drain(q)
    IN  IF ~d.found
        THEN /\ executionQueue' = <<>>
             /\ isProcessing' = FlagAfterDrain
             /\ loops' = [loops EXCEPT ![l] = IdleLoop]
             /\ dequeueLog' = dequeueLog \o d.dropped
             /\ UNCHANGED <<inflight, nextTradeId>>
        ELSE /\ executionQueue' = d.rest
             /\ isProcessing' = TRUE
             /\ dequeueLog' =
                    dequeueLog \o d.dropped \o <<LogEntry(d.item, TRUE)>>
             /\ IF ExecuteReturnsNull(d.item)
                THEN /\ loops' = [loops EXCEPT ![l] =
                            [pc |-> "delay", until |-> now + SubmitDelayMs]]
                     /\ UNCHANGED <<inflight, nextTradeId>>
                ELSE /\ loops' = [loops EXCEPT ![l] =
                            [pc |-> "exec", until |-> 0]]
                     /\ inflight' = inflight \cup
                            {[trade |-> NewTrade(d.item), via |-> l]}
                     /\ nextTradeId' = nextTradeId + 1

ProcessQueueReturns_NoFlag(q) == Len(q) = 0

ProcessQueueReturns(q) == isProcessing \/ Len(q) = 0

IdleLoops == {l \in 1..MaxLoops : loops[l].pc = "idle"}

QueueOpportunity(m, tok, bestAsk, askSize) ==
    LET opportunity ==
            [seq            |-> queuedCount + 1,
             marketId       |-> m,
             tokenId        |-> tok,
             currentPrice   |-> bestAsk,
             expectedProfit |-> ExpectedProfit(bestAsk, askSize),
             timestamp      |-> now]
        q == Append(executionQueue, opportunity)
    IN  /\ queuedCount < MaxQueued
        /\ opportunity.expectedProfit >= minProfitThreshold
        /\ queuedCount' = queuedCount + 1
        /\ IF ProcessQueueReturns(q)
           THEN /\ executionQueue' = q
                /\ UNCHANGED <<isProcessing, loops, inflight, nextTradeId,
                               dequeueLog>>
           ELSE /\ IdleLoops # {}
                /\ RunLoop(CHOOSE l \in IdleLoops : \A k \in IdleLoops : l <= k, q)
        /\ UNCHANGED <<clockVars, venueVars, lifeVars, obsVars, callVars, detVars, isEnabled, ledgerVars,
                       lastOutcome, resolveCalls, feedVars, scanVars>>

\* The venue answers the order of drain loop o.via: executeOpportunity returns
\* and the loop starts its delay.  processQueue drops the returned trade.
QueueOrderResponse(o, success) ==
    /\ o \in inflight
    /\ o.via # 0
    /\ inflight' = inflight \ {o}
    /\ loops' = [loops EXCEPT ![o.via] =
                    [pc |-> "delay", until |-> now + SubmitDelayMs]]
    /\ UNCHANGED <<clockVars, venueVars, lifeVars, obsVars, callVars, detVars, isEnabled, executionQueue,
                   isProcessing, nextTradeId, ledgerVars, ghostVars, feedVars,
                   scanVars>>

DelayElapsed(l) ==
    /\ loops[l].pc = "delay"
    /\ now >= loops[l].until
    /\ RunLoop(l, executionQueue)
    /\ UNCHANGED <<clockVars, venueVars, lifeVars, obsVars, callVars, detVars, isEnabled, ledgerVars, lastOutcome,
                   queuedCount, resolveCalls, feedVars, scanVars>>

Enable ==
    /\ ~isEnabled
    /\ isEnabled' = TRUE
    /\ UNCHANGED <<clockVars, venueVars, lifeVars, obsVars, callVars, detVars, executionQueue, isProcessing, loops,
                   inflight, nextTradeId, ledgerVars, ghostVars, feedVars,
                   scanVars>>

Disable ==
    /\ isEnabled
    /\ isEnabled' = FALSE
    /\ UNCHANGED <<clockVars, venueVars, lifeVars, obsVars, callVars, detVars, executionQueue, isProcessing, loops,
                   inflight, nextTradeId, ledgerVars, ghostVars, feedVars,
                   scanVars>>

Tick(d) ==
    /\ now + d <= MaxTime
    /\ now' = now + d
    /\ UNCHANGED <<venueVars, lifeVars, obsVars, callVars, detVars, execVars, ledgerVars, ghostVars, feedVars,
                   scanVars>>

(***************************************************************************)
(* The state after construction.                                           *)
(***************************************************************************)
NoSocket == [state |-> "NONE", sent |-> {}, replayed |-> {}]
NoScan   == [at |-> -1, markets |-> <<>>]
EmptyWatchlist == [id \in {} |-> 0]

\* The detector's inputs: an ask level, the venue's book of a token (what
\* getOrderBook and a 'book' message are made from), and the OrderBook that
\* analyzeOpportunity is given.
Ask(price, size) == [price |-> price, size |-> size]
VenueBook(asks, minOrderSize, minTickSize) ==
    [asks |-> asks, minOrderSize |-> minOrderSize, minTickSize |-> minTickSize]
OrderBook(asks, minOrderSize) == [asks |-> asks, minOrderSize |-> minOrderSize]
NoAsks == VenueBook(<<>>, 0, 1)
NoOpportunity ==
    [marketId |-> "none", tokenId |-> "none", currentPrice |-> 0,
     expectedProfit |-> 0, timestamp |-> -1]
NoCall == [opportunity |-> NoOpportunity, size |-> -1, returnedNull |-> TRUE]
NoGate == [size |-> 0, price |-> 0, result |-> TRUE, calls |-> 0]
NoAnalysis ==
    [tokenId |-> "none", orderBook |-> OrderBook(<<>>, 0), emitted |-> FALSE,
     opportunity |-> NoOpportunity]

Init ==
    /\ now = 0
    /\ canTrade \in BOOLEAN
    /\ isEnabled = TRUE
    /\ executionQueue = <<>>
    /\ isProcessing = FALSE
    /\ loops = [l \in 1..MaxLoops |-> IdleLoop]
    /\ inflight = {}
    /\ nextTradeId = 1
    /\ positions = <<>>
    /\ stats = InitStats
    /\ dailyPnL = 0
    /\ dailyStartDate = 0
    /\ disk = [positions |-> <<>>, stats |-> InitStats]
    /\ lastOutcome = "none"
    /\ queuedCount = 0
    /\ dequeueLog = <<>>
    /\ resolveCalls = 0
    /\ ws = NoSocket
    /\ orphans = <<>>
    /\ subscribedAssets = {}
    /\ reconnectAttempts = 0
    /\ pingInterval = FALSE
    /\ isConnecting = FALSE
    /\ reconnectTimers = <<>>
    /\ exhausted = FALSE
    /\ hostCalls = 0
    /\ closesSinceOpen = 0
    /\ watchedMarkets = EmptyWatchlist
    /\ scansInFlight = 0
    /\ lastScan = NoScan
    /\ isRunning = FALSE
    /\ listeners = 0
    /\ books = [tok \in {"t1", "t2", "t3"} |-> NoAsks]
    /\ bookFetches = <<>>
    /\ lastAnalysis = NoAnalysis
    /\ emitTotal = 0
    /\ sameBookEmits = [tok \in {"t1", "t2", "t3"} |-> 0]
    /\ execCalls = 0
    /\ lastCall = NoCall
    /\ sizings = {}
    /\ execTrace = <<>>
    /\ lastGate = NoGate
    /\ scanInterval = FALSE
    /\ botStopped = FALSE
    /\ restarts = 0
    /\ lastResolve = NoResolve
    /\ scanRuns = <<>>
    /\ ledgerEvents = NoEvent

(***************************************************************************)
(* The bot as index.ts composes it: opportunities go from the Detector to  *)
(* the handler; positions are resolved through the ledger.                 *)
(***************************************************************************)
Next ==
    \/ \E m \in MarketIds, bestAsk \in AskPrices, askSize \in AskSizes :
          \E tok \in TokensOf(m) : OnOpportunity(m, tok, bestAsk, askSize)
    \/ \E o \in inflight, success \in BOOLEAN : HandlerOrderResponse(o, success)
    \/ \E id \in 1..MaxTrades, isWinner \in BOOLEAN : ResolvePosition(id, isWinner)

Spec == Init /\ [][Next]_vars

(***************************************************************************)
(* The executor's queue, driven by a host that queues opportunities.       *)
(***************************************************************************)
NextQueue ==
    \/ \E m \in MarketIds, bestAsk \in AskPrices, askSize \in AskSizes :
          \E tok \in TokensOf(m) : QueueOpportunity(m, tok, bestAsk, askSize)
    \/ \E o \in inflight, success \in BOOLEAN : QueueOrderResponse(o, success)
    \/ \E l \in 1..MaxLoops : DelayElapsed(l)
    \/ \E d \in TickMs : Tick(d)
    \/ Enable
    \/ Disable

SpecQueue == Init /\ [][NextQueue]_vars

\* The queue when time goes on: the 100 ms timer of a drain loop comes due,
\* the venue answers (or throws: executeOpportunity catches it and returns
\* the trade as FAILED, as for an unsuccessful response), and the loop
\* resumes.
DelayComesDue(l) ==
    /\ loops[l].pc = "delay"
    /\ now < loops[l].until
    /\ now' = loops[l].until
    /\ UNCHANGED <<venueVars, lifeVars, obsVars, callVars, detVars, execVars,
                   ledgerVars, ghostVars, feedVars, scanVars>>

NextQueueLive ==
    \/ QueueOpportunity("m1", "t1", minCertaintyPrice, 100)
    \/ \E o \in inflight, success \in BOOLEAN : QueueOrderResponse(o, success)
    \/ \E l \in 1..MaxLoops : DelayElapsed(l)
    \/ \E l \in 1..MaxLoops : DelayComesDue(l)
    \/ \E d \in TickMs : Tick(d)
    \/ Disable

SpecQueueLive ==
    /\ Init /\ [][NextQueueLive]_vars
    /\ WF_vars(\E o \in inflight, success \in BOOLEAN :
                   QueueOrderResponse(o, success))
    /\ WF_vars(\E l \in 1..MaxLoops : DelayComesDue(l))
    /\ WF_vars(\E l \in 1..MaxLoops : DelayElapsed(l))

(***************************************************************************)
(* PolymarketWebSocket.  A socket is its readyState, the asset ids for     *)
(* which a subscribe message was sent on it (sent), and those among them   *)
(* sent by the 'open' handler (replayed).  Socket 0 is this.ws, socket     *)
(* i > 0 is orphans[i].  The handlers of every socket act on the feed's    *)
(* fields, this.ws included, not on the socket that fired.                 *)
(***************************************************************************)
maxReconnectAttempts == 10
reconnectDelay       == 1000
MaxHostCalls         == 2

AssetIds == {"t1", "t3"}

NewSocket == [state |-> "CONNECTING", sent |-> {}, replayed |-> {}]

SocketAt(i) == IF i = 0 THEN ws ELSE orphans[i]

RemoveAt(seq, i) == SubSeq(seq, 1, i - 1) \o SubSeq(seq, i + 1, Len(seq))

ConnectReturns_OpenOnly == ws.state = "OPEN"

\* connect(): the guard of its first line.
ConnectReturns == ws.state = "OPEN" \/ isConnecting

\* connect(): a socket still connecting, open or closing that this.ws no
\* longer references keeps its handlers.
Connect ==
    IF ConnectReturns
    THEN UNCHANGED <<ws, orphans, isConnecting>>
    ELSE /\ isConnecting' = TRUE
         /\ ws' = NewSocket
         /\ orphans' = IF ws.state \in {"CONNECTING", "OPEN", "CLOSING"}
                       THEN Append(orphans, ws)
                       ELSE orphans

HostConnect ==
    /\ hostCalls < MaxHostCalls
    /\ hostCalls' = hostCalls + 1
    /\ Connect
    /\ UNCHANGED <<subscribedAssets, reconnectAttempts, pingInterval,
                   reconnectTimers, exhausted, closesSinceOpen>>
    /\ UNCHANGED <<clockVars, venueVars, lifeVars, obsVars, callVars, detVars, execVars, ledgerVars, ghostVars,
                   scanVars>>

\* subscribeToAssets(assetIds); subscribeToAsset is the case of one id.
HostSubscribe(assetIds) ==
    /\ subscribedAssets' = subscribedAssets \cup assetIds
    /\ ws' = IF ws.state # "OPEN" THEN ws
             ELSE [ws EXCEPT !.sent = @ \cup assetIds]
    /\ UNCHANGED <<orphans, reconnectAttempts, pingInterval, isConnecting,
                   reconnectTimers, exhausted, hostCalls, closesSinceOpen>>
    /\ UNCHANGED <<clockVars, venueVars, lifeVars, obsVars, callVars, detVars, execVars, ledgerVars, ghostVars,
                   scanVars>>

Resubscribed_Nothing(socket) == socket

\* The 'open' handler's loop of subscribeToAsset over subscribedAssets, on
\* what this.ws is when the handler runs.
Resubscribed(socket) ==
    IF socket.state # "OPEN" THEN socket
    ELSE [socket EXCEPT !.sent = @ \cup subscribedAssets,
                        !.replayed = @ \cup subscribedAssets]

\* The 'open' event of socket i.
SocketOpen(i) ==
    /\ SocketAt(i).state = "CONNECTING"
    /\ reconnectAttempts' = 0
    /\ isConnecting' = FALSE
    /\ pingInterval' = TRUE
    /\ closesSinceOpen' = 0
    /\ IF i = 0
       THEN /\ ws' = Resubscribed([ws EXCEPT !.state = "OPEN"])
            /\ UNCHANGED orphans
       ELSE /\ ws' = Resubscribed(ws)
            /\ orphans' = [orphans EXCEPT ![i].state = "OPEN"]
    /\ UNCHANGED <<subscribedAssets, reconnectTimers, exhausted, hostCalls>>
    /\ UNCHANGED <<clockVars, venueVars, lifeVars, obsVars, callVars, detVars, execVars, ledgerVars, ghostVars,
                   scanVars>>

\* The 'error' event of socket i; the library then closes the socket.
SocketError(i) ==
    /\ SocketAt(i).state \in {"CONNECTING", "OPEN"}
    /\ isConnecting' = FALSE
    /\ IF i = 0
       THEN ws' = [ws EXCEPT !.state = "CLOSING"] /\ UNCHANGED orphans
       ELSE orphans' = [orphans EXCEPT ![i].state = "CLOSING"] /\ UNCHANGED ws
    /\ UNCHANGED <<subscribedAssets, reconnectAttempts, pingInterval,
                   reconnectTimers, exhausted, hostCalls, closesSinceOpen>>
    /\ UNCHANGED <<clockVars, venueVars, lifeVars, obsVars, callVars, detVars, execVars, ledgerVars, ghostVars,
                   scanVars>>

ReconnectDelayFor_Linear(attempt) == reconnectDelay * attempt

\* attemptReconnect: reconnectDelay * Math.pow(2, reconnectAttempts - 1)
ReconnectDelayFor(attempt) == reconnectDelay * 2 ^ (attempt - 1)

ReconnectGivesUp_Late == reconnectAttempts > maxReconnectAttempts

ReconnectGivesUp == reconnectAttempts >= maxReconnectAttempts

\* attemptReconnect, to its await of the delay.
AttemptReconnect ==
    IF ReconnectGivesUp
    THEN /\ exhausted' = TRUE
         /\ UNCHANGED <<reconnectAttempts, reconnectTimers>>
    ELSE /\ reconnectAttempts' = reconnectAttempts + 1
         /\ reconnectTimers' = Append(reconnectTimers,
                [n     |-> reconnectAttempts + 1,
                 delay |-> ReconnectDelayFor(reconnectAttempts + 1)])
         /\ UNCHANGED exhausted

\* The 'close' event of socket i.
SocketClose(i) ==
    /\ SocketAt(i).state \in {"CONNECTING", "OPEN", "CLOSING"}
    /\ isConnecting' = FALSE
    /\ pingInterval' = FALSE
    /\ closesSinceOpen' = closesSinceOpen + 1
    /\ AttemptReconnect
    /\ IF i = 0
       THEN ws' = [ws EXCEPT !.state = "CLOSED"] /\ UNCHANGED orphans
       ELSE orphans' = RemoveAt(orphans, i) /\ UNCHANGED ws
    /\ UNCHANGED <<subscribedAssets, hostCalls>>
    /\ UNCHANGED <<clockVars, venueVars, lifeVars, obsVars, callVars, detVars, execVars, ledgerVars, ghostVars,
                   scanVars>>

\* attemptReconnect after its delay: await this.connect().
ReconnectTimerFires(k) ==
    /\ k \in DOMAIN reconnectTimers
    /\ reconnectTimers' = RemoveAt(reconnectTimers, k)
    /\ Connect
    /\ UNCHANGED <<subscribedAssets, reconnectAttempts, pingInterval,
                   exhausted, hostCalls, closesSinceOpen>>
    /\ UNCHANGED <<clockVars, venueVars, lifeVars, obsVars, callVars, detVars, execVars, ledgerVars, ghostVars,
                   scanVars>>

(***************************************************************************)
(* The feed with a host that calls connect() to start it and, redundantly, *)
(* while it is open or connecting (index.ts calls it once, in start), and  *)
(* subscribes at any time.                                                 *)
(***************************************************************************)
NextFeed ==
    \/ (ws.state \in {"NONE", "OPEN"} \/ isConnecting) /\ HostConnect
    \/ \E assetIds \in SUBSET AssetIds : assetIds # {} /\ HostSubscribe(assetIds)
    \/ \E i \in 0..Len(orphans) : SocketOpen(i)
    \/ \E i \in 0..Len(orphans) : SocketError(i)
    \/ \E i \in 0..Len(orphans) : SocketClose(i)
    \/ \E k \in DOMAIN reconnectTimers : ReconnectTimerFires(k)

SpecFeed == Init /\ [][NextFeed]_vars

(***************************************************************************)
(* MarketScanner.  A market carries the fields scan() reads: id, the three *)
(* flags, endDate (ms) and its tokens (tokenId, price in thousandths).     *)
(* getMarkets returns a list; the venue may repeat an id across pages.     *)
(***************************************************************************)
MaxScansInFlight == 2   \* scan() invocations awaiting their fetch
MaxScanSteps     == 2   \* the scanner's clock stops after this many steps
ScanStepMs       == 12 * HourMs

nearCertainPrice == 990
ScanPrices   == {500, minCertaintyPrice, nearCertainPrice}
ScanEndDates == {12 * HourMs, 36 * HourMs}
MarketFlags  == {"inactive", "closed", "archived"}
TokenList(m) == IF m = "m1" THEN <<"t1", "t2">> ELSE <<"t3">>

Market(id, flag, endDate, price) ==
    [id       |-> id,
     active   |-> flag # "inactive",
     closed   |-> flag = "closed",
     archived |-> flag = "archived",
     endDate  |-> endDate,
     tokens   |-> [i \in 1..Len(TokenList(id)) |->
                     [tokenId |-> TokenList(id)[i],
                      price   |-> IF i = 1 THEN price ELSE 1000 - price]]]

VenueMarkets ==
    {Market(id, "ok", e, p) : id \in MarketIds, e \in ScanEndDates,
                              p \in ScanPrices}
    \cup {Market(id, f, 12 * HourMs, nearCertainPrice) :
              id \in MarketIds, f \in MarketFlags}

\* What getMarkets can resolve to: no market, one market, or two markets of
\* which the first is m1 (the second may repeat its id).
GetMarketsResults ==
    {<<>>}
    \cup {<<a>> : a \in VenueMarkets}
    \cup {<<a, b>> : a \in {v \in VenueMarkets : v.id = "m1"},
                     b \in VenueMarkets}

NoToken == [tokenId |-> "null", price |-> 0]

SomeTokenAtLeast(market, threshold) ==
    \E i \in DOMAIN market.tokens : market.tokens[i].price >= threshold

\* The two tests of filterEligibleMarkets on hoursUntilEnd, in ms.
EndsWithinDay_AnyTime(market, t) == market.endDate - t <= DayMs
EndsWithinDay(market, t) ==
    market.endDate - t > 0 /\ market.endDate - t <= DayMs
EndsLater(market, t) == market.endDate - t > DayMs

RECURSIVE FilterEligibleMarkets(_, _)
FilterEligibleMarkets(markets, t) ==
    IF markets = <<>> THEN <<>>
    ELSE LET market == Head(markets)
             rest   == FilterEligibleMarkets(Tail(markets), t)
         IN  IF ~market.active \/ market.closed \/ market.archived
             THEN rest
             ELSE (IF EndsWithinDay(market, t)
                      /\ SomeTokenAtLeast(market, minCertaintyPrice)
                   THEN <<market>> ELSE <<>>)
                  \o (IF EndsLater(market, t)
                         /\ SomeTokenAtLeast(market, nearCertainPrice)
                      THEN <<market>> ELSE <<>>)
                  \o rest

RECURSIVE HighestFrom_LastWins(_, _, _, _)
HighestFrom_LastWins(tokens, i, highestPrice, highestToken) ==
    IF i > Len(tokens) THEN highestToken
    ELSE IF tokens[i].price >= highestPrice
         THEN HighestFrom_LastWins(tokens, i + 1, tokens[i].price, tokens[i])
         ELSE HighestFrom_LastWins(tokens, i + 1, highestPrice, highestToken)

RECURSIVE HighestFrom(_, _, _, _)
HighestFrom(tokens, i, highestPrice, highestToken) ==
    IF i > Len(tokens) THEN highestToken
    ELSE IF tokens[i].price > highestPrice
         THEN HighestFrom(tokens, i + 1, tokens[i].price, tokens[i])
         ELSE HighestFrom(tokens, i + 1, highestPrice, highestToken)

FindHighPriceToken(market) == HighestFrom(market.tokens, 1, 0, NoToken)

WatchedMarket(market, t) ==
    [market |-> market, addedAt |-> t,
     highPriceToken |-> FindHighPriceToken(market)]

\* scan() lines 46-62: eligible markets not yet watched are added.
RECURSIVE AddEligible(_, _, _)
AddEligible(watched, eligibleMarkets, t) ==
    IF eligibleMarkets = <<>> THEN watched
    ELSE LET market == Head(eligibleMarkets)
             next   ==
                 IF market.id \in DOMAIN watched THEN watched
                 ELSE [id \in DOMAIN watched \cup {market.id} |->
                         IF id = market.id THEN WatchedMarket(market, t)
                         ELSE watched[id]]
         IN  AddEligible(next, Tail(eligibleMarkets), t)

\* scan() lines 65-70: watched ids with no eligible market are deleted.
RemoveIneligible_Keep(watched, eligibleMarkets) == watched
RemoveIneligible(watched, eligibleMarkets) ==
    [id \in {w \in DOMAIN watched :
                \E i \in DOMAIN eligibleMarkets : eligibleMarkets[i].id = w}
        |-> watched[id]]

ScanUpdate_AddOnly(watched, markets, t) ==
    AddEligible(watched, FilterEligibleMarkets(markets, t), t)

ScanUpdate(watched, markets, t) ==
    LET eligibleMarkets == FilterEligibleMarkets(markets, t)
    IN  RemoveIneligible(AddEligible(watched, eligibleMarkets, t),
                         eligibleMarkets)

\* start() or the interval timer calls scan(), which awaits getMarkets.
ScanStart ==
    /\ scansInFlight < MaxScansInFlight
    /\ scansInFlight' = scansInFlight + 1
    /\ UNCHANGED <<watchedMarkets, lastScan>>
    /\ UNCHANGED <<clockVars, venueVars, lifeVars, obsVars, callVars, detVars, execVars, ledgerVars, ghostVars,
                   feedVars>>

\* getMarkets resolves: the rest of scan() runs without suspension.
ScanFetched(markets) ==
    /\ scansInFlight > 0
    /\ scansInFlight' = scansInFlight - 1
    /\ watchedMarkets' = ScanUpdate(watchedMarkets, markets, now)
    /\ lastScan' = [at |-> now, markets |-> markets]
    /\ UNCHANGED <<clockVars, venueVars, lifeVars, obsVars, callVars, detVars, execVars, ledgerVars, ghostVars,
                   feedVars>>

\* getMarkets rejects: the catch block logs and scan() returns.
ScanFailed ==
    /\ scansInFlight > 0
    /\ scansInFlight' = scansInFlight - 1
    /\ UNCHANGED <<watchedMarkets, lastScan>>
    /\ UNCHANGED <<clockVars, venueVars, lifeVars, obsVars, callVars, detVars, execVars, ledgerVars, ghostVars,
                   feedVars>>

ScannerTick ==
    /\ now < MaxScanSteps * ScanStepMs
    /\ now' = now + ScanStepMs
    /\ UNCHANGED <<venueVars, lifeVars, obsVars, callVars, detVars, execVars, ledgerVars, ghostVars, feedVars,
                   scanVars>>

NextScanner ==
    \/ ScanStart
    \/ \E markets \in GetMarketsResults : ScanFetched(markets)
    \/ ScanFailed
    \/ ScannerTick

\* The scanner runs after clobService.initialize() has authenticated.
InitScanner == Init /\ canTrade

SpecScanner == InitScanner /\ [][NextScanner]_vars

(***************************************************************************)
(* OpportunityDetector.  Prices are thousandths of a dollar and sizes      *)
(* hundredths of a share, as in the executor.  lastPrices is written by    *)
(* handlePriceChange and read by nothing the detector does; it is left     *)
(* out.  A message is delivered only for a token the feed subscribed to.   *)
(***************************************************************************)
MaxStarts      == 1   \* start() calls that register listeners
MaxBookFetches == 1   \* checkOrderBook chains awaiting getOrderBook
MaxEmits       == 2   \* 'opportunity' events

\* Books the venue can show for a token, best ask first.
QualifyingBook == VenueBook(<<Ask(980, 100)>>, 100, 1)
VenueBooks ==
    {NoAsks,
     QualifyingBook,
     VenueBook(<<Ask(995, 100)>>, 100, 1),
     VenueBook(<<Ask(995, 50)>>, 0, 1),
     VenueBook(<<Ask(980, 50)>>, 100, 100),
     VenueBook(<<Ask(979, 100), Ask(985, 100)>>, 100, 1),
     VenueBook(<<Ask(996, 100)>>, 100, 1)}

\* getOrderBook: minOrderSize is book.min_order_size || '0'.
FetchedOrderBook(tokenId) ==
    OrderBook(books[tokenId].asks, books[tokenId].minOrderSize)

\* handleBookUpdate: minOrderSize is data.min_tick_size || '1'.
BookEventSnapshot(tokenId) ==
    OrderBook(books[tokenId].asks, books[tokenId].minTickSize)

InBuyRange(price) == price >= minCertaintyPrice /\ price <= maxBuyPrice

\* handleBookUpdate's test before it calls analyzeOpportunity.
BookUpdatePasses(orderBook) ==
    /\ Len(orderBook.asks) > 0
    /\ InBuyRange(orderBook.asks[1].price)

ProfitReachesThreshold_Always(bestAsk, askSize) == TRUE
ProfitReachesThreshold(bestAsk, askSize) ==
    ExpectedProfit(bestAsk, askSize) >= minProfitThreshold

\* analyzeOpportunity: the conditions under which it emits.
Qualifies(orderBook) ==
    /\ Len(orderBook.asks) > 0
    /\ InBuyRange(orderBook.asks[1].price)
    /\ orderBook.asks[1].size >= orderBook.minOrderSize
    /\ ProfitReachesThreshold(orderBook.asks[1].price, orderBook.asks[1].size)

\* analyzeOpportunity lines 318-329: the watched market holding the token,
\* '' when there is none.
FindMarketId(tokenId) ==
    LET holders == {id \in DOMAIN watchedMarkets :
                       \E i \in DOMAIN watchedMarkets[id].market.tokens :
                           watchedMarkets[id].market.tokens[i].tokenId = tokenId}
    IN  IF holders = {} THEN "" ELSE CHOOSE id \in holders : TRUE

\* One or more analyzeOpportunity calls on the same snapshot in one
\* synchronous run (one per registered listener for a feed message).
AnalyzeOpportunity(tokenId, orderBook, times) ==
    LET emits == Qualifies(orderBook)
    IN  /\ lastAnalysis' =
              [tokenId     |-> tokenId,
               orderBook   |-> orderBook,
               emitted     |-> emits,
               opportunity |->
                   IF emits
                   THEN Opportunity(FindMarketId(tokenId), tokenId,
                                    orderBook.asks[1].price,
                                    orderBook.asks[1].size)
                   ELSE NoOpportunity]
        /\ emitTotal' = IF emits THEN emitTotal + times ELSE emitTotal
        /\ sameBookEmits' =
              IF emits THEN [sameBookEmits EXCEPT ![tokenId] = @ + times]
              ELSE sameBookEmits

\* getTokenIds and getHighPriceTokens of the scanner.
GetTokenIds ==
    UNION {{watchedMarkets[id].market.tokens[i].tokenId :
               i \in DOMAIN watchedMarkets[id].market.tokens} :
           id \in DOMAIN watchedMarkets}

HighPriceTokenIds ==
    {watchedMarkets[id].highPriceToken.tokenId : id \in DOMAIN watchedMarkets}
        \ {NoToken.tokenId}

\* The orders in which getHighPriceTokens can list the tokens (the Map's
\* insertion order).
TokenChains ==
    {chain \in UNION {[1..n -> HighPriceTokenIds] : n \in 0..2} :
        /\ Len(chain) = Cardinality(HighPriceTokenIds)
        /\ \A i, j \in DOMAIN chain : i # j => chain[i] # chain[j]}

\* scanOrderBooks: the chain of checkOrderBook calls over the tokens that
\* getHighPriceTokens listed when it was called.
ScanOrderBooks(chain) ==
    IF chain = <<>> THEN bookFetches ELSE Append(bookFetches, chain)

\* start(): listeners, the refresh timer and the initial scanOrderBooks.
DetectorStart ==
    /\ ~isRunning
    /\ listeners < MaxStarts
    /\ Len(bookFetches) < MaxBookFetches
    /\ isRunning' = TRUE
    /\ listeners' = listeners + 1
    /\ \E chain \in TokenChains : bookFetches' = ScanOrderBooks(chain)
    /\ UNCHANGED <<books, lastAnalysis, emitTotal, sameBookEmits>>
    /\ UNCHANGED <<clockVars, venueVars, lifeVars, obsVars, callVars, execVars, ledgerVars, ghostVars,
                   feedVars, scanVars>>

\* stop(): the refresh timer is cleared, the listeners stay.
DetectorStop ==
    /\ isRunning
    /\ isRunning' = FALSE
    /\ UNCHANGED <<listeners, books, bookFetches, lastAnalysis, emitTotal,
                   sameBookEmits>>
    /\ UNCHANGED <<clockVars, venueVars, lifeVars, obsVars, callVars, execVars, ledgerVars, ghostVars,
                   feedVars, scanVars>>

\* The refresh timer fires: scanOrderBooks over a non-empty watchlist.
RefreshTimer ==
    /\ isRunning
    /\ Len(bookFetches) < MaxBookFetches
    /\ HighPriceTokenIds # {}
    /\ \E chain \in TokenChains : bookFetches' = ScanOrderBooks(chain)
    /\ UNCHANGED <<isRunning, listeners, books, lastAnalysis, emitTotal,
                   sameBookEmits>>
    /\ UNCHANGED <<clockVars, venueVars, lifeVars, obsVars, callVars, execVars, ledgerVars, ghostVars,
                   feedVars, scanVars>>

\* getOrderBook of the head of chain i resolves (found) or fails (null):
\* checkOrderBook analyzes the book, then the chain goes on to its next token.
BookFetched(i, found) ==
    /\ i \in DOMAIN bookFetches
    /\ emitTotal < MaxEmits
    /\ LET tokenId == Head(bookFetches[i])
           rest    == Tail(bookFetches[i])
       IN  /\ bookFetches' = IF rest = <<>> THEN RemoveAt(bookFetches, i)
                             ELSE [bookFetches EXCEPT ![i] = rest]
           /\ IF found
              THEN AnalyzeOpportunity(tokenId, FetchedOrderBook(tokenId), 1)
              ELSE UNCHANGED <<lastAnalysis, emitTotal, sameBookEmits>>
    /\ UNCHANGED <<isRunning, listeners, books>>
    /\ UNCHANGED <<clockVars, venueVars, lifeVars, obsVars, callVars, execVars, ledgerVars, ghostVars,
                   feedVars, scanVars>>

\* A 'price_change' message with a price in [minCertaintyPrice, maxBuyPrice]:
\* each listener calls checkOrderBook(assetId).
PriceChange(tokenId) ==
    /\ listeners > 0
    /\ tokenId \in subscribedAssets
    /\ Len(bookFetches) + listeners <= MaxBookFetches
    /\ bookFetches' =
          bookFetches \o [k \in 1..listeners |-> <<tokenId>>]
    /\ UNCHANGED <<isRunning, listeners, books, lastAnalysis, emitTotal,
                   sameBookEmits>>
    /\ UNCHANGED <<clockVars, venueVars, lifeVars, obsVars, callVars, execVars, ledgerVars, ghostVars,
                   feedVars, scanVars>>

\* A 'book' message carrying the token's current book: each listener runs
\* handleBookUpdate.
BookEvent(tokenId) ==
    /\ listeners > 0
    /\ tokenId \in subscribedAssets
    /\ emitTotal + listeners <= MaxEmits
    /\ IF BookUpdatePasses(BookEventSnapshot(tokenId))
       THEN AnalyzeOpportunity(tokenId, BookEventSnapshot(tokenId), listeners)
       ELSE /\ lastAnalysis' =
                  [tokenId |-> tokenId,
                   orderBook |-> BookEventSnapshot(tokenId),
                   emitted |-> FALSE, opportunity |-> NoOpportunity]
            /\ UNCHANGED <<emitTotal, sameBookEmits>>
    /\ UNCHANGED <<isRunning, listeners, books, bookFetches>>
    /\ UNCHANGED <<clockVars, venueVars, lifeVars, obsVars, callVars, execVars, ledgerVars, ghostVars,
                   feedVars, scanVars>>

\* subscribeToMarkets: the watchlist's token ids go to the feed.
SubscribeToMarkets ==
    /\ GetTokenIds # {}
    /\ HostSubscribe(GetTokenIds)

\* The venue's book of a token changes.
VenueBookChange(tokenId, book) ==
    /\ book # books[tokenId]
    /\ books' = [books EXCEPT ![tokenId] = book]
    /\ sameBookEmits' = [sameBookEmits EXCEPT ![tokenId] = 0]
    /\ UNCHANGED <<isRunning, listeners, bookFetches, lastAnalysis, emitTotal>>
    /\ UNCHANGED <<clockVars, venueVars, lifeVars, obsVars, callVars, execVars, ledgerVars, ghostVars,
                   feedVars, scanVars>>

\* The detector with the scanner and the venue: scans, subscriptions, book
\* changes, feed messages and refresh cycles in any order.
DetectorScanResults ==
    {<<>>,
     <<Market("m1", "ok", 12 * HourMs, nearCertainPrice)>>,
     <<Market("m2", "ok", 12 * HourMs, minCertaintyPrice)>>,
     <<Market("m1", "ok", 12 * HourMs, nearCertainPrice),
       Market("m2", "ok", 12 * HourMs, minCertaintyPrice)>>}

InitDetector == Init /\ canTrade

NextDetector ==
    \/ scansInFlight = 0 /\ ScanStart
    \/ \E markets \in DetectorScanResults : ScanFetched(markets)
    \/ SubscribeToMarkets
    \/ DetectorStart
    \/ DetectorStop
    \/ RefreshTimer
    \/ \E i \in DOMAIN bookFetches, found \in BOOLEAN : BookFetched(i, found)
    \/ \E tokenId \in AssetIds : PriceChange(tokenId)
    \/ \E tokenId \in AssetIds : BookEvent(tokenId)
    \/ \E tokenId \in AssetIds, book \in {NoAsks, QualifyingBook} :
          VenueBookChange(tokenId, book)

SpecDetector == InitDetector /\ [][NextDetector]_vars

\* The readers of the watchlist next to the scans that replace it: refresh
\* cycles, subscriptions and order-book checks, with scans overlapping.
NextWatch ==
    \/ ScanStart
    \/ \E markets \in DetectorScanResults : ScanFetched(markets)
    \/ SubscribeToMarkets
    \/ DetectorStart
    \/ RefreshTimer
    \/ \E i \in DOMAIN bookFetches, found \in BOOLEAN : BookFetched(i, found)

SpecWatch == InitDetector /\ [][NextWatch]_vars

\* The same with markets whose tokens tie at the highest price, or whose
\* second token is the highest.
TieMarket(id) ==
    [Market(id, "ok", 12 * HourMs, nearCertainPrice) EXCEPT
        !.tokens = [i \in DOMAIN @ |-> [@[i] EXCEPT !.price = nearCertainPrice]]]

TokenScanResults ==
    {<<>>,
     <<TieMarket("m1")>>,
     <<Market("m1", "ok", 12 * HourMs, 1000 - minCertaintyPrice)>>,
     <<Market("m2", "ok", 12 * HourMs, minCertaintyPrice)>>,
     <<TieMarket("m1"), Market("m2", "ok", 12 * HourMs, minCertaintyPrice)>>}

NextTokens ==
    \/ ScanStart
    \/ \E markets \in TokenScanResults : ScanFetched(markets)
    \/ DetectorStart
    \/ RefreshTimer
    \/ \E i \in DOMAIN bookFetches, found \in BOOLEAN : BookFetched(i, found)

SpecTokens == InitDetector /\ [][NextTokens]_vars

\* The opportunity rule on every book: one started detector, token t1
\* subscribed, the venue showing each of its books in turn.
NextRule ==
    \/ DetectorStart
    \/ HostSubscribe({"t1"})
    \/ \E book \in VenueBooks : VenueBookChange("t1", book)
    \/ BookEvent("t1")
    \/ PriceChange("t1")
    \/ \E i \in DOMAIN bookFetches, found \in BOOLEAN : BookFetched(i, found)

SpecRule == InitDetector /\ [][NextRule]_vars

(***************************************************************************)
(* The executor called directly: executeOpportunity with any Opportunity,  *)
(* the venue's answer to each order, enable() and disable().               *)
(***************************************************************************)
MaxExecCalls == 3   \* executeOpportunity calls

\* expectedProfit values a caller can pass (0.00001 dollar units); the
\* threshold is 500.
ProfitLevels == {0, 250, 500, 501, 750, 1000, 4000}

ApiOpportunity(expectedProfit) ==
    [marketId       |-> "m1",
     tokenId        |-> "t1",
     currentPrice   |-> minCertaintyPrice,
     expectedProfit |-> expectedProfit,
     timestamp      |-> now]

TraceEntry(kind, id, status) == [kind |-> kind, id |-> id, status |-> status]

\* executeOpportunity up to its return of null or its await of placeOrder.
ExecuteOpportunity(expectedProfit) ==
    LET opportunity == ApiOpportunity(expectedProfit)
        sized       == isEnabled /\ canTrade
        size        == IF sized THEN CalculateOrderSize(opportunity) ELSE -1
    IN  /\ execCalls < MaxExecCalls
        /\ execCalls' = execCalls + 1
        /\ sizings' = IF sized THEN sizings \cup {<<expectedProfit, size>>}
                      ELSE sizings
        /\ IF ExecuteReturnsNull(opportunity)
           THEN /\ lastCall' = [opportunity |-> opportunity, size |-> size,
                                returnedNull |-> TRUE]
                /\ execTrace' = Append(execTrace, TraceEntry("return", 0, "null"))
                /\ UNCHANGED <<inflight, nextTradeId>>
           ELSE /\ nextTradeId <= MaxTrades
                /\ lastCall' = [opportunity |-> opportunity, size |-> size,
                                returnedNull |-> FALSE]
                /\ inflight' = inflight \cup
                      {[trade |-> NewTrade(opportunity), via |-> -1]}
                /\ execTrace' = Append(execTrace,
                      TraceEntry("submit", nextTradeId, "PENDING"))
                /\ nextTradeId' = nextTradeId + 1
        /\ UNCHANGED <<isEnabled, executionQueue, isProcessing, loops, lastGate>>
        /\ UNCHANGED <<clockVars, venueVars, lifeVars, obsVars, detVars, ledgerVars, ghostVars,
                       feedVars, scanVars>>

\* What placeOrder can do: resolve with success, resolve without, or reject
\* (clobService.placeOrder itself turns its errors into success: false).
PlaceOrderOutcomes == {"success", "rejected", "throws"}

TradeStatusFor_Pending(outcome) ==
    IF outcome = "success" THEN "MATCHED"
    ELSE IF outcome = "throws" THEN "PENDING" ELSE "FAILED"

TradeStatusFor(outcome) == IF outcome = "success" THEN "MATCHED" ELSE "FAILED"

\* executeOpportunity after its await: status, event, return.
ApiOrderResponse(o, outcome) ==
    /\ o \in inflight
    /\ o.via = -1
    /\ inflight' = inflight \ {o}
    /\ execTrace' = execTrace \o
          <<TraceEntry("response", o.trade.id, outcome),
            TraceEntry(IF TradeStatusFor(outcome) = "MATCHED"
                       THEN "trade_executed" ELSE "trade_failed",
                       o.trade.id, TradeStatusFor(outcome)),
            TraceEntry("return", o.trade.id, TradeStatusFor(outcome))>>
    /\ UNCHANGED <<isEnabled, executionQueue, isProcessing, loops, nextTradeId,
                   execCalls, lastCall, sizings, lastGate>>
    /\ UNCHANGED <<clockVars, venueVars, lifeVars, obsVars, detVars, ledgerVars, ghostVars,
                   feedVars, scanVars>>

NextExecutor ==
    \/ \E expectedProfit \in ProfitLevels : ExecuteOpportunity(expectedProfit)
    \/ \E o \in inflight, outcome \in PlaceOrderOutcomes :
          ApiOrderResponse(o, outcome)
    \/ Enable
    \/ Disable

SpecExecutor == Init /\ [][NextExecutor]_vars

(***************************************************************************)
(* PositionManager, called directly: addPosition with a trade the executor *)
(* returned, resolvePosition, and the read canOpenNewPosition, whose       *)
(* arguments and result are recorded in lastGate.                          *)
(***************************************************************************)
MaxGateCalls == 2

LedgerPrices == {500, 980}
LedgerSizes  == {50000, 100000}
GateSizes    == {defaultOrderSize, 50000}
GatePrices   == {500}

LedgerTrade(price, size) ==
    [id        |-> nextTradeId,
     marketId  |-> "m1",
     tokenId   |-> "t1",
     price     |-> price,
     size      |-> size,
     timestamp |-> now]

LedgerAddPosition(price, size) ==
    /\ nextTradeId <= MaxTrades
    /\ nextTradeId' = nextTradeId + 1
    /\ AddPosition(LedgerTrade(price, size))
    /\ UNCHANGED <<clockVars, venueVars, lifeVars, obsVars, callVars, detVars, isEnabled,
                   executionQueue, isProcessing, loops, inflight, ghostVars,
                   feedVars, scanVars>>

LedgerCanOpen(size, price) ==
    /\ lastGate.calls < MaxGateCalls
    /\ lastGate' = [size   |-> size,
                    price  |-> price,
                    result |-> CanOpenNewPosition(size, price),
                    calls  |-> lastGate.calls + 1]
    /\ UNCHANGED <<clockVars, venueVars, lifeVars, obsVars, execCalls, lastCall, sizings,
                   execTrace, detVars, execVars, ledgerVars, ghostVars,
                   feedVars, scanVars>>

NextLedger ==
    \/ \E price \in LedgerPrices, size \in LedgerSizes :
          LedgerAddPosition(price, size)
    \/ \E id \in 1..MaxTrades, isWinner \in BOOLEAN : ResolvePosition(id, isWinner)
    \/ \E size \in GateSizes, price \in GatePrices : LedgerCanOpen(size, price)

SpecLedger == Init /\ [][NextLedger]_vars

(***************************************************************************)
(* The ledger when writing its files can fail.  saveState catches what     *)
(* writeFileSync throws, so addPosition and resolvePosition go on to their *)
(* emit and return.                                                        *)
(***************************************************************************)
EmitsAfterSave_OnlyIfSaved(written) == written = "both"

EmitsAfterSave(written) == TRUE

Emitted(name, id, written) ==
    IF EmitsAfterSave(written)
    THEN [count |-> ledgerEvents.count + 1, name |-> name, id |-> id]
    ELSE ledgerEvents

AddPositionMayFail(price, size, written) ==
    /\ nextTradeId <= MaxTrades
    /\ nextTradeId' = nextTradeId + 1
    /\ AddPositionWriting(LedgerTrade(price, size), written)
    /\ ledgerEvents' = Emitted("position_opened", nextTradeId, written)
    /\ UNCHANGED <<clockVars, venueVars, lifeVars, scanRuns, callVars,
                   detVars, isEnabled, executionQueue, isProcessing, loops,
                   inflight, ghostVars, feedVars, scanVars>>

ResolvePositionMayFail(positionId, isWinner, written) ==
    /\ ResolveWriting(positionId, isWinner, written)
    /\ ledgerEvents' = IF positionId \in DOMAIN positions
                       THEN Emitted("position_resolved", positionId, written)
                       ELSE ledgerEvents
    /\ UNCHANGED <<clockVars, venueVars, scanInterval, botStopped, restarts,
                   scanRuns, callVars, detVars, execVars, lastOutcome,
                   queuedCount, dequeueLog, feedVars, scanVars>>

NextSaveFails ==
    \/ \E price \in LedgerPrices, written \in WriteOutcomes :
          AddPositionMayFail(price, 50000, written)
    \/ \E id \in 1..MaxTrades, isWinner \in BOOLEAN,
          written \in WriteOutcomes :
          ResolvePositionMayFail(id, isWinner, written)

SpecSaveFails == Init /\ [][NextSaveFails]_vars

(***************************************************************************)
(* The ledger over calendar days and restarts of the process: the same     *)
(* calls, getDailyPnL, the passing of a day, and the construction of a new *)
(* PositionManager, which loads the saved files.                           *)
(***************************************************************************)
MaxDays     == 1
MaxRestarts == 1

GetDailyPnL ==
    /\ dailyPnL' = CheckDailyResetPnL
    /\ dailyStartDate' = CheckDailyResetDate
    /\ UNCHANGED <<positions, stats, disk>>
    /\ UNCHANGED <<clockVars, venueVars, lifeVars, obsVars, callVars, detVars,
                   execVars, ghostVars, feedVars, scanVars>>

DayPasses ==
    /\ now < MaxDays * DayMs
    /\ now' = now + DayMs
    /\ UNCHANGED <<venueVars, lifeVars, obsVars, callVars, detVars, execVars,
                   ledgerVars, ghostVars, feedVars, scanVars>>

\* new PositionManager(): field initialisers, then loadState.
Restart ==
    /\ restarts < MaxRestarts
    /\ restarts' = restarts + 1
    /\ positions' = LoadPositions(disk.positions)
    /\ stats' = disk.stats
    /\ dailyPnL' = 0
    /\ dailyStartDate' = Today
    /\ UNCHANGED disk
    /\ UNCHANGED <<clockVars, venueVars, scanInterval, botStopped,
                   lastResolve, obsVars, callVars, detVars, execVars, ghostVars,
                   feedVars, scanVars>>

NextLedgerDays ==
    \/ LedgerAddPosition(980, 100000)
    \/ \E id \in 1..MaxTrades, isWinner \in BOOLEAN : ResolvePosition(id, isWinner)
    \/ LedgerCanOpen(defaultOrderSize, 500)
    \/ GetDailyPnL
    \/ DayPasses
    \/ Restart

SpecLedgerDays == Init /\ [][NextLedgerDays]_vars

\* The writes and the restart alone: what is saved and what is loaded.
NextRestart ==
    \/ LedgerAddPosition(980, 100000)
    \/ \E id \in 1..MaxTrades, isWinner \in BOOLEAN : ResolvePosition(id, isWinner)
    \/ DayPasses
    \/ Restart

SpecRestart == Init /\ [][NextRestart]_vars

(***************************************************************************)
(* The running bot and its shutdown (index.ts): the feed, the scanner's    *)
(* interval and the detector's refresh timer, with the bot's handlers of   *)
(* 'connected' and 'max_reconnect_failed' run inside the feed event that   *)
(* emits them.  BotStart is start() from its first line to its last: the   *)
(* socket opened, the first scan done, the tokens subscribed, the detector *)
(* started and the handlers registered.                                    *)
(***************************************************************************)
LiveStates == {"CONNECTING", "OPEN", "CLOSING"}

\* MarketScanner.stop and OpportunityDetector.stop: what is left of the
\* interval they clear.
MarketScannerStop_Keeps(interval) == interval

MarketScannerStop(interval) == FALSE

DetectorStopped(running) == FALSE

\* disconnect(): close() of a socket that is not closed yet starts its
\* closing handshake; its handlers stay attached.
DisconnectedOrphans(socket, others) ==
    IF socket.state \in LiveStates
    THEN Append(others, [socket EXCEPT !.state = "CLOSING"])
    ELSE others

BotStart(markets) ==
    LET watched == ScanUpdate(watchedMarkets, markets, now)
        tokenIds == UNION {{watched[id].market.tokens[i].tokenId :
                               i \in DOMAIN watched[id].market.tokens} :
                           id \in DOMAIN watched}
    IN  /\ ws.state = "NONE"
        /\ listeners = 0
        /\ ~botStopped
        /\ hostCalls' = hostCalls + 1
        /\ ws' = [state |-> "OPEN", sent |-> tokenIds, replayed |-> {}]
        /\ pingInterval' = TRUE
        /\ subscribedAssets' = tokenIds
        /\ watchedMarkets' = watched
        /\ lastScan' = [at |-> now, markets |-> markets]
        /\ scanInterval' = TRUE
        /\ isRunning' = TRUE
        /\ listeners' = 1
        /\ UNCHANGED <<orphans, reconnectAttempts, isConnecting,
                       reconnectTimers, exhausted, closesSinceOpen,
                       scansInFlight, books, bookFetches, lastAnalysis,
                       emitTotal, sameBookEmits, botStopped, restarts,
                       lastResolve>>
        /\ UNCHANGED <<clockVars, venueVars, obsVars, callVars, execVars,
                       ledgerVars, ghostVars>>

\* The scanner's interval fires.
ScanTimerFires ==
    /\ scanInterval
    /\ ScanStart

\* 'open' of socket i, then the bot's 'connected' handler:
\* subscribeToMarkets.
BotSocketOpen(i) ==
    LET opened == IF i = 0 THEN Resubscribed([ws EXCEPT !.state = "OPEN"])
                  ELSE Resubscribed(ws)
    IN  /\ SocketAt(i).state = "CONNECTING"
        /\ reconnectAttempts' = 0
        /\ isConnecting' = FALSE
        /\ pingInterval' = TRUE
        /\ closesSinceOpen' = 0
        /\ orphans' = IF i = 0 THEN orphans
                      ELSE [orphans EXCEPT ![i].state = "OPEN"]
        /\ subscribedAssets' = subscribedAssets \cup GetTokenIds
        /\ ws' = IF opened.state = "OPEN"
                 THEN [opened EXCEPT !.sent = @ \cup GetTokenIds]
                 ELSE opened
        /\ UNCHANGED <<reconnectTimers, exhausted, hostCalls>>
        /\ UNCHANGED <<clockVars, venueVars, lifeVars, obsVars, callVars, detVars,
                       execVars, ledgerVars, ghostVars, scanVars>>

\* 'close' of socket i: attemptReconnect, and when that gives up the bot's
\* 'max_reconnect_failed' handler runs stop(): detector, scanner, feed.
BotSocketClose(i) ==
    LET closed == IF i = 0 THEN [ws EXCEPT !.state = "CLOSED"] ELSE ws
        others == IF i = 0 THEN orphans ELSE RemoveAt(orphans, i)
    IN  /\ SocketAt(i).state \in LiveStates
        /\ isConnecting' = FALSE
        /\ pingInterval' = FALSE
        /\ closesSinceOpen' = closesSinceOpen + 1
        /\ AttemptReconnect
        /\ IF ReconnectGivesUp
           THEN /\ isRunning' = DetectorStopped(isRunning)
                /\ scanInterval' = MarketScannerStop(scanInterval)
                /\ subscribedAssets' = {}
                /\ ws' = NoSocket
                /\ orphans' = IF closed.state = "NONE" THEN others
                              ELSE DisconnectedOrphans(closed, others)
                /\ botStopped' = TRUE
           ELSE /\ ws' = closed
                /\ orphans' = others
                /\ UNCHANGED <<isRunning, scanInterval, subscribedAssets,
                               botStopped>>
        /\ UNCHANGED <<hostCalls, listeners, books, bookFetches, lastAnalysis,
                       emitTotal, sameBookEmits, restarts, lastResolve>>
        /\ UNCHANGED <<clockVars, venueVars, obsVars, callVars, execVars,
                       ledgerVars, ghostVars, scanVars>>

BotScanResults ==
    {<<>>, <<Market("m1", "ok", 12 * HourMs, nearCertainPrice)>>}

NextBot ==
    \/ \E markets \in BotScanResults : BotStart(markets)
    \/ ScanTimerFires
    \/ \E markets \in BotScanResults : ScanFetched(markets)
    \/ ScanFailed
    \/ RefreshTimer
    \/ \E i \in DOMAIN bookFetches, found \in BOOLEAN : BookFetched(i, found)
    \/ \E i \in 0..Len(orphans) : BotSocketOpen(i)
    \/ \E i \in 0..Len(orphans) : SocketError(i)
    \/ \E i \in 0..Len(orphans) : BotSocketClose(i)
    \/ \E k \in DOMAIN reconnectTimers : ReconnectTimerFires(k)

SpecBot == InitDetector /\ [][NextBot]_vars

\* The bot with its timers firing and the venue answering every fetch; the
\* feed's socket may stay open for ever.
SpecBotFair ==
    /\ SpecBot
    /\ WF_vars(ScanTimerFires)
    /\ WF_vars(ScanFailed \/ \E markets \in BotScanResults :
                                ScanFetched(markets))

(***************************************************************************)
(* The feed with a host that calls connect(), disconnect() and             *)
(* subscribeToAssets() at any time.  disconnect() removes no handler and   *)
(* cancels no pending attemptReconnect.                                    *)
(***************************************************************************)
HostDisconnect ==
    /\ pingInterval' = FALSE
    /\ subscribedAssets' = {}
    /\ ws' = NoSocket
    /\ orphans' = IF ws.state = "NONE" THEN orphans
                  ELSE DisconnectedOrphans(ws, orphans)
    /\ UNCHANGED <<reconnectAttempts, isConnecting, reconnectTimers,
                   exhausted, hostCalls, closesSinceOpen>>
    /\ UNCHANGED <<clockVars, venueVars, lifeVars, obsVars, callVars,
                   detVars, execVars, ledgerVars, ghostVars, scanVars>>

LiveSockets ==
    {i \in 0..Len(orphans) : SocketAt(i).state \in {"CONNECTING", "OPEN"}}

NextFeedHost ==
    \/ HostConnect
    \/ HostDisconnect
    \/ HostSubscribe({"t1"})
    \/ \E i \in 0..Len(orphans) : SocketOpen(i)
    \/ \E i \in 0..Len(orphans) : SocketError(i)
    \/ \E i \in 0..Len(orphans) : SocketClose(i)
    \/ \E k \in DOMAIN reconnectTimers : ReconnectTimerFires(k)

SpecFeedHost == Init /\ [][NextFeedHost]_vars

(***************************************************************************)
(* The scanner's invocations of scan(), told apart (MarketScanner.start    *)
(* and scan).  Run 1 is the scan() that start() awaits; the interval that  *)
(* start() sets once that scan has returned starts the later runs without  *)
(* awaiting them, so they can overlap.                                     *)
(***************************************************************************)
MaxScanRuns == 3    \* scan() invocations of one scanner

RunScanResults ==
    {<<>>,
     <<Market("m1", "ok", 12 * HourMs, nearCertainPrice)>>,
     <<Market("m2", "ok", 12 * HourMs, nearCertainPrice)>>}

Awaiting == {k \in DOMAIN scanRuns : scanRuns[k].pc = "awaiting"}

\* A scan() invocation at its await of getMarkets.
NewRun == [pc |-> "awaiting", markets |-> <<>>, overlaps |-> Awaiting # {}]

\* start() line 20: scan() has caught whatever getMarkets threw, so the
\* awaited call returns and start() sets the interval.
StartSetsInterval_OnlyOnSuccess(outcome) == outcome = "complete"

StartSetsInterval(outcome) == TRUE

\* start(): scan() is called and awaited.
ScannerStart ==
    /\ scanRuns = <<>>
    /\ ~scanInterval
    /\ scanRuns' = <<NewRun>>
    /\ scansInFlight' = scansInFlight + 1
    /\ UNCHANGED <<watchedMarkets, lastScan, lifeVars, ledgerEvents>>
    /\ UNCHANGED <<clockVars, venueVars, callVars, detVars, execVars,
                   ledgerVars, ghostVars, feedVars>>

\* The interval fires: () => this.scan().
ScanIntervalFires ==
    /\ scanInterval
    /\ Len(scanRuns) < MaxScanRuns
    /\ scanRuns' = Append(scanRuns, NewRun)
    /\ scansInFlight' = scansInFlight + 1
    /\ UNCHANGED <<watchedMarkets, lastScan, lifeVars, ledgerEvents>>
    /\ UNCHANGED <<clockVars, venueVars, callVars, detVars, execVars,
                   ledgerVars, ghostVars, feedVars>>

\* What the end of run k does to the interval: run 1 resumes start().
IntervalAfterRun(k, outcome) ==
    IF k = 1 THEN StartSetsInterval(outcome) ELSE scanInterval

\* getMarkets of run k resolves: the rest of scan() runs without suspension.
RunFetched(k, markets) ==
    /\ k \in Awaiting
    /\ scanRuns' = [scanRuns EXCEPT ![k].pc = "complete",
                                    ![k].markets = markets]
    /\ scansInFlight' = scansInFlight - 1
    /\ watchedMarkets' = ScanUpdate(watchedMarkets, markets, now)
    /\ lastScan' = [at |-> now, markets |-> markets]
    /\ scanInterval' = IntervalAfterRun(k, "complete")
    /\ UNCHANGED <<botStopped, restarts, lastResolve, ledgerEvents>>
    /\ UNCHANGED <<clockVars, venueVars, callVars, detVars, execVars,
                   ledgerVars, ghostVars, feedVars>>

\* getMarkets of run k rejects: the catch block logs and scan() returns.
RunFailed(k) ==
    /\ k \in Awaiting
    /\ scanRuns' = [scanRuns EXCEPT ![k].pc = "failed"]
    /\ scansInFlight' = scansInFlight - 1
    /\ scanInterval' = IntervalAfterRun(k, "failed")
    /\ UNCHANGED <<watchedMarkets, lastScan, botStopped, restarts,
                   lastResolve, ledgerEvents>>
    /\ UNCHANGED <<clockVars, venueVars, callVars, detVars, execVars,
                   ledgerVars, ghostVars, feedVars>>

NextScanRuns ==
    \/ ScannerStart
    \/ ScanIntervalFires
    \/ \E k \in DOMAIN scanRuns, markets \in RunScanResults :
          RunFetched(k, markets)
    \/ \E k \in DOMAIN scanRuns : RunFailed(k)

SpecScanRuns == InitScanner /\ [][NextScanRuns]_vars

(***************************************************************************)
(* Claims about the bot (Spec).                                            *)
(***************************************************************************)

\* C1: after every addPosition the sum of entryPrice x size over the OPEN
\* positions is at most maxTotalExposure.  Exposure rises only in
\* addPosition, so this is the invariant that it never exceeds the ceiling.
C1_ExposureWithinCeiling == GetTotalExposure <= maxTotalExposure

\* C2: at most one order submission is in flight at any time, however the
\* Detector's opportunities arrive.
C2_OneSubmissionInFlight == Cardinality(inflight) <= 1

\* C3: every order submitted to the venue is for an opportunity the risk gate
\* admitted in the state it was handled in (so an opportunity the gate refuses
\* submits nothing), and every new position is that of an order that was
\* submitted.
C3_RiskGatePrecedesExecution ==
    [][/\ \A o \in inflight' \ inflight :
              CanOpenNewPosition(defaultOrderSize, o.trade.price)
       /\ \A id \in DOMAIN positions' \ DOMAIN positions :
              \E o \in inflight : o.trade.id = id]_vars

\* C3 witness: the gate has refused an opportunity while positions admitted
\* earlier are open, and nothing is in flight.
C3_Witness ==
    /\ lastOutcome = "risk_limits"
    /\ GetOpenPositions # {}
    /\ inflight = {}

(***************************************************************************)
(* Claims about the execution queue (SpecQueue).                           *)
(***************************************************************************)
ActiveLoops == {l \in 1..MaxLoops : loops[l].pc # "idle"}

\* C4: an item older than 5000 ms when it is dequeued is discarded without a
\* call of executeOpportunity, an item at most 5000 ms old is passed to it,
\* and no trade is created except by such a call.
C4_StaleDiscarded ==
    /\ \A i \in DOMAIN dequeueLog :
          dequeueLog[i].executed <=> dequeueLog[i].age <= 5000
    /\ nextTradeId - 1 <=
          Cardinality({i \in DOMAIN dequeueLog : dequeueLog[i].executed})

\* C4 witness: one item was dequeued exactly 5000 ms old and executed, another
\* was dequeued older than that and dropped.
C4_Witness ==
    /\ \E i \in DOMAIN dequeueLog :
          dequeueLog[i].age = 5000 /\ dequeueLog[i].executed
    /\ \E i \in DOMAIN dequeueLog :
          dequeueLog[i].age > 5000 /\ ~dequeueLog[i].executed

\* C5: at most one processQueue loop is active, and a queueOpportunity call
\* made while one is active only appends its item: no loop starts or moves,
\* nothing is dequeued, no order is submitted.
C5_SingleDrainLoop ==
    /\ [](Cardinality(ActiveLoops) <= 1)
    /\ [][(ActiveLoops # {} /\ queuedCount' = queuedCount + 1) =>
            /\ Len(executionQueue') = Len(executionQueue) + 1
            /\ SubSeq(executionQueue', 1, Len(executionQueue)) = executionQueue
            /\ executionQueue'[Len(executionQueue')].seq = queuedCount'
            /\ UNCHANGED <<loops, isProcessing, inflight, nextTradeId,
                           dequeueLog>>]_vars

\* C5 witness: a drain loop awaits the venue while two later calls have left
\* their items in the queue.
C5_Witness ==
    /\ Cardinality(ActiveLoops) = 1
    /\ isProcessing
    /\ inflight # {}
    /\ Len(executionQueue) = 2

\* C6: items are dequeued in arrival order, each once: the k-th item dequeued
\* is the k-th item queued, the items still queued are the later arrivals in
\* order, and executeOpportunity is called at most once per item.
C6_FifoAtMostOnce ==
    /\ \A i \in DOMAIN dequeueLog : dequeueLog[i].seq = i
    /\ \A j \in DOMAIN executionQueue :
          executionQueue[j].seq = Len(dequeueLog) + j
    /\ Len(dequeueLog) + Len(executionQueue) = queuedCount

\* C6 witness: three items went through the queue, the second dropped as
\* stale, the first and the third executed.
C6_Witness ==
    /\ Len(dequeueLog) = 3
    /\ dequeueLog[1].executed
    /\ ~dequeueLog[2].executed
    /\ dequeueLog[3].executed

(***************************************************************************)
(* Claims about the feed (SpecFeed).                                       *)
(***************************************************************************)
ExpectedDelays ==
    <<1000, 2000, 4000, 8000, 16000, 32000, 64000, 128000, 256000, 512000>>

\* C7: the reconnect attempt scheduled at the n-th consecutive close (n in
\* 1..10) waits 1000 x 2^(n-1) ms; the attempt counter never exceeds 10; the
\* 11th consecutive close emits max_reconnect_failed and schedules nothing,
\* and from then on the feed creates no socket.
C7_ReconnectBackoff ==
    /\ [](/\ reconnectAttempts <= 10
          /\ \A k \in DOMAIN reconnectTimers :
                /\ reconnectTimers[k].n = closesSinceOpen
                /\ reconnectTimers[k].n \in 1..10
                /\ reconnectTimers[k].delay =
                       ExpectedDelays[reconnectTimers[k].n]
          /\ exhausted <=> closesSinceOpen > 10
          /\ exhausted => reconnectTimers = <<>>)
    /\ [][closesSinceOpen' = closesSinceOpen + 1 =>
             IF closesSinceOpen < 10
             THEN Len(reconnectTimers') = Len(reconnectTimers) + 1
             ELSE exhausted' /\ reconnectTimers' = reconnectTimers]_vars
    /\ [][exhausted => ~(ws' # ws /\ ws'.state = "CONNECTING")]_vars

\* C7 witness: ten reconnect attempts failed in a row and the 11th close
\* emitted max_reconnect_failed.
C7_Witness ==
    /\ exhausted
    /\ closesSinceOpen = 11
    /\ reconnectAttempts = 10

C9_SubscriptionsReplayed ==
    /\ [](/\ ws.state \in {"NONE", "CONNECTING"} => ws.sent = {}
          /\ ws.state = "OPEN" => subscribedAssets \subseteq ws.sent)
    /\ [][(subscribedAssets' # subscribedAssets /\ ws.state # "OPEN") =>
             (ws' = ws /\ subscribedAssets \subseteq subscribedAssets')]_vars
    /\ [][(ws.state # "OPEN" /\ ws'.state = "OPEN") =>
             (ws'.sent = subscribedAssets /\ ws'.replayed = subscribedAssets)]_vars

\* C9 witness: both asset ids were recorded before the socket opened and the
\* 'open' handler sent a subscribe message for each of them.
C9_Witness ==
    /\ ws.state = "OPEN"
    /\ ws.replayed = AssetIds
    /\ hostCalls = 1
    /\ pingInterval

(***************************************************************************)
(* Claims about the scanner (SpecScanner).                                 *)
(***************************************************************************)
\* C10: after a scan has completed, a market id is in the watchlist if and
\* only if a market of that id in the list that scan fetched is active, not
\* closed, not archived, and either ends within (0, 24h] of the scan with a
\* token at 0.98 or more, or ends later with a token at 0.99 or more.
C10_NoStaleWatchlistEntries ==
    lastScan # NoScan =>
        \A id \in MarketIds :
            id \in DOMAIN watchedMarkets <=>
                \E i \in DOMAIN lastScan.markets :
                    LET m    == lastScan.markets[i]
                        left == m.endDate - lastScan.at
                    IN  /\ m.id = id
                        /\ m.active /\ ~m.closed /\ ~m.archived
                        /\ \/ /\ left > 0 /\ left <= 86400000
                              /\ \E k \in DOMAIN m.tokens :
                                    m.tokens[k].price >= 980
                           \/ /\ left > 86400000
                              /\ \E k \in DOMAIN m.tokens :
                                    m.tokens[k].price >= 990

\* C10 witness: a scan at 12h fetched m1, whose end time had just passed, and
\* m2, still eligible and watched since the scan at 0h; m1, watched until
\* then, is gone and m2 remains.
C10_Witness ==
    /\ lastScan.at = 12 * HourMs
    /\ DOMAIN watchedMarkets = {"m2"}
    /\ watchedMarkets["m2"].addedAt = 0
    /\ \E i \in DOMAIN lastScan.markets :
          /\ lastScan.markets[i].id = "m1"
          /\ lastScan.markets[i].active
          /\ ~lastScan.markets[i].closed
          /\ ~lastScan.markets[i].archived
          /\ lastScan.markets[i].endDate = 12 * HourMs

\* C11: filterEligibleMarkets keeps exactly the markets that are active, not
\* closed, not archived and either end within (0, 24h] with a token at
\* 0.98 or more, or end later than 24h with a token at 0.99 or more; a market
\* whose end time has been reached is dropped whatever its price; the result
\* keeps the input order and holds each input entry at most once.
C11_EligibilityRule ==
    lastScan # NoScan =>
        LET EligibleEntry(m) ==
                LET left == m.endDate - lastScan.at
                IN  /\ m.active /\ ~m.closed /\ ~m.archived
                    /\ left > 0
                    /\ \/ /\ left <= 86400000
                          /\ \E k \in DOMAIN m.tokens :
                                m.tokens[k].price >= 980
                       \/ /\ left > 86400000
                          /\ \E k \in DOMAIN m.tokens :
                                m.tokens[k].price >= 990
        IN  FilterEligibleMarkets(lastScan.markets, lastScan.at)
                = SelectSeq(lastScan.markets, EligibleEntry)

\* C11 witness: a scan at 12h filtered a list of two active markets: m1 at
\* 0.99 whose end time is that very moment (dropped) and m2 at 0.98 ending
\* exactly 24h later (kept).
C11_Witness ==
    /\ lastScan.at = 12 * HourMs
    /\ Len(lastScan.markets) = 2
    /\ lastScan.markets[1] = Market("m1", "ok", 12 * HourMs, 990)
    /\ lastScan.markets[2] = Market("m2", "ok", 36 * HourMs, 980)
    /\ FilterEligibleMarkets(lastScan.markets, lastScan.at)
           = <<lastScan.markets[2]>>

C13_OpportunityReferencesWatchedToken ==
    [][emitTotal' > emitTotal =>
          \E id \in DOMAIN watchedMarkets :
              /\ lastAnalysis'.opportunity.marketId = id
              /\ \E i \in DOMAIN watchedMarkets[id].market.tokens :
                    watchedMarkets[id].market.tokens[i].tokenId
                        = lastAnalysis'.opportunity.tokenId]_vars

\* C14: while the book of a token stays unchanged, at most one Opportunity is
\* emitted for that token, however many book messages and refresh cycles
\* evaluate it.
C14_OneEmissionPerCondition ==
    \A tokenId \in DOMAIN sameBookEmits : sameBookEmits[tokenId] <= 1

(***************************************************************************)
(* Claims about the executor called directly (SpecExecutor).               *)
(***************************************************************************)
\* C15: every size calculateOrderSize returns is
\* min(maxPositionSize, defaultOrderSize x min(2, expectedProfit / threshold))
\* rounded down to a hundredth of a share, also when the ratio is below 1.
C15_SizingFormula ==
    \A pair \in sizings :
        LET ep     == pair[1]
            scaled == IF ep >= 2 * 500 THEN 2 * 10000 * 500 ELSE 10000 * ep
            capped == IF scaled > 50000 * 500 THEN 50000 * 500 ELSE scaled
        IN  pair[2] = capped \div 500

C18_TerminalStatusNoRetry ==
    \A id \in 1..(nextTradeId - 1) :
        LET At(kind) == {i \in DOMAIN execTrace :
                            execTrace[i].kind = kind /\ execTrace[i].id = id}
            events   == At("trade_executed") \cup At("trade_failed")
        IN  /\ Cardinality(At("submit")) = 1
            /\ Cardinality(At("response")) <= 1
            /\ Cardinality(At("return")) = Cardinality(At("response"))
            /\ Cardinality(events) = Cardinality(At("response"))
            /\ \A r \in At("return"), q \in At("response"), e \in events :
                  /\ execTrace[r].status \in {"MATCHED", "FAILED"}
                  /\ execTrace[r].status = "MATCHED"
                        <=> execTrace[q].status = "success"
                  /\ execTrace[e].kind = "trade_executed"
                        <=> execTrace[r].status = "MATCHED"
                  /\ q < e /\ e < r

\* C18 witness: one order matched and another's submission threw; the first
\* was returned MATCHED after trade_executed, the second FAILED after
\* trade_failed.
C18_Witness ==
    /\ \E i \in DOMAIN execTrace :
          execTrace[i] = TraceEntry("response", 1, "success")
    /\ \E i \in DOMAIN execTrace :
          execTrace[i] = TraceEntry("return", 1, "MATCHED")
    /\ \E i \in DOMAIN execTrace :
          execTrace[i] = TraceEntry("response", 2, "throws")
    /\ \E i \in DOMAIN execTrace :
          execTrace[i] = TraceEntry("return", 2, "FAILED")
    /\ inflight = {}

(***************************************************************************)
(* Claims about the ledger (SpecLedger).                                   *)
(***************************************************************************)
\* C19: a call of canOpenNewPosition(size, price) returns false exactly when
\* the cost of the OPEN positions plus size * price is greater than
\* maxTotalExposure or the daily P&L is less than -dailyLossLimit (equality on
\* either bound returns true), and the call leaves positions, statistics,
\* daily P&L, its start date and the saved state as they were.
C19_GateRuleAndReadOnly ==
    [][lastGate'.calls # lastGate.calls =>
          /\ lastGate'.result =
                ~(\/ GetTotalExposure + lastGate'.size * lastGate'.price
                        > maxTotalExposure
                  \/ dailyPnL < -dailyLossLimit)
          /\ UNCHANGED ledgerVars]_vars

\* C19 witness: the gate has answered true with the new exposure exactly
\* maxTotalExposure and the daily P&L exactly -dailyLossLimit.
C19_Witness ==
    /\ lastGate.calls > 0
    /\ lastGate.result
    /\ GetTotalExposure + lastGate.size * lastGate.price = maxTotalExposure
    /\ dailyPnL = -dailyLossLimit
    /\ positions # <<>>

(***************************************************************************)
(* Claims about the bot's ledger (Spec).                                   *)
(***************************************************************************)
\* C20: the set of positions and the trade counter change only when the
\* handler receives a MATCHED trade, and then exactly one position is created:
\* it is OPEN, its id, entry price and size are the trade's, every other
\* position is as before, totalTrades is one more and the saved state holds
\* the full position set.  A FAILED or null result leaves the ledger as it was.
C20_PositionsOnlyFromMatchedTrades ==
    [][/\ (\/ DOMAIN positions' # DOMAIN positions
           \/ stats'.totalTrades # stats.totalTrades
           \/ /\ inflight' # inflight
              /\ lastOutcome' = "trade_executed") =>
          /\ lastOutcome' = "trade_executed"
          /\ \E o \in inflight \ inflight' :
                /\ o.trade.id \notin DOMAIN positions
                /\ DOMAIN positions' = DOMAIN positions \cup {o.trade.id}
                /\ positions'[o.trade.id].id = o.trade.id
                /\ positions'[o.trade.id].entryPrice = o.trade.price
                /\ positions'[o.trade.id].size = o.trade.size
                /\ positions'[o.trade.id].status = "OPEN"
                /\ \A id \in DOMAIN positions : positions'[id] = positions[id]
                /\ stats'.totalTrades = stats.totalTrades + 1
                /\ LoadPositions(disk'.positions) = positions'
       /\ (/\ resolveCalls' = resolveCalls
           /\ lastOutcome' \in {"trade_failed", "no_trade"}) =>
          UNCHANGED ledgerVars]_vars

\* C20 witness: two trades were submitted, the ledger holds the position of
\* the one that MATCHED and counts one trade, and the last trade FAILED.
C20_Witness ==
    /\ nextTradeId = 3
    /\ inflight = {}
    /\ lastOutcome = "trade_failed"
    /\ DOMAIN positions = {1}
    /\ positions[1].status = "OPEN"
    /\ stats.totalTrades = 1
    /\ LoadPositions(disk.positions) = positions

(***************************************************************************)
(* Claims about resolution (SpecLedger).                                   *)
(***************************************************************************)
\* C21: resolvePosition(id, isWinner) on an existing position computes
\* pnl = (isWinner ? size : 0) - entryPrice * size; a win sets RESOLVED_WIN,
\* adds one to winningTrades and pnl to totalProfit; a loss sets
\* RESOLVED_LOSS, adds one to losingTrades and |pnl| to totalLoss; either way
\* the daily P&L changes by pnl, and the other side's counters stay.
C21_ResolutionCorrectness ==
    [][(/\ resolveCalls' # resolveCalls
        /\ lastResolve'.positionId \in DOMAIN positions) =>
          LET id  == lastResolve'.positionId
              win == lastResolve'.isWinner
              pnl == (IF win THEN positions[id].size * 1000 ELSE 0)
                        - positions[id].entryPrice * positions[id].size
              abs == IF pnl < 0 THEN -pnl ELSE pnl
          IN  /\ positions'[id].status =
                    IF win THEN "RESOLVED_WIN" ELSE "RESOLVED_LOSS"
              /\ stats'.winningTrades =
                    stats.winningTrades + (IF win THEN 1 ELSE 0)
              /\ stats'.losingTrades =
                    stats.losingTrades + (IF win THEN 0 ELSE 1)
              /\ stats'.totalProfit =
                    stats.totalProfit + (IF win THEN pnl ELSE 0)
              /\ stats'.totalLoss =
                    stats.totalLoss + (IF win THEN 0 ELSE abs)
              /\ dailyPnL' = dailyPnL + pnl]_vars

\* C21 witness: a position bought at 0.98 was resolved as a winner and one
\* bought at 0.50 as a loser: 0.02 per share won, 0.50 per share lost.
C21_Witness ==
    /\ DOMAIN positions = {1, 2}
    /\ positions[1].status = "RESOLVED_WIN"
    /\ positions[1].entryPrice = 980
    /\ positions[2].status = "RESOLVED_LOSS"
    /\ positions[2].entryPrice = 500
    /\ stats.winningTrades = 1
    /\ stats.losingTrades = 1
    /\ stats.totalProfit = 20 * positions[1].size
    /\ stats.totalLoss = 500 * positions[2].size
    /\ dailyPnL = 20 * positions[1].size - 500 * positions[2].size

\* Fractions are pairs num/den; two are equal when they cross-multiply.
\* C22 as stated: once a position has been resolved, winRate equals
\* winningTrades / (winningTrades + losingTrades) and averageProfit equals
\* (totalProfit - totalLoss) / (winningTrades + losingTrades).
C22_AggregatesAsRatio ==
    LET totalResolved == stats.winningTrades + stats.losingTrades
    IN  totalResolved > 0 =>
          /\ stats.winRate.num * totalResolved
                = stats.winningTrades * stats.winRate.den
          /\ stats.averageProfit.num * totalResolved
                = (stats.totalProfit - stats.totalLoss) * stats.averageProfit.den

\* C22 amended: once a position has been resolved, winRate equals the
\* percentage 100 * winningTrades / (winningTrades + losingTrades) and
\* averageProfit equals (totalProfit - totalLoss) / (winningTrades +
\* losingTrades).
C22_AggregatesAsPercentage ==
    LET totalResolved == stats.winningTrades + stats.losingTrades
    IN  totalResolved > 0 =>
          /\ stats.winRate.den > 0
          /\ stats.averageProfit.den > 0
          /\ stats.winRate.num * totalResolved
                = 100 * stats.winningTrades * stats.winRate.den
          /\ stats.averageProfit.num * totalResolved
                = (stats.totalProfit - stats.totalLoss) * stats.averageProfit.den

\* C22 witness: one win and one loss have been resolved; the win rate is 50
\* and the average profit is negative.
C22_Witness ==
    /\ stats.winningTrades = 1
    /\ stats.losingTrades = 1
    /\ stats.winRate.num = 50 * stats.winRate.den
    /\ stats.averageProfit.num < 0

(***************************************************************************)
(* Claims about the ledger over days and restarts (SpecLedgerDays and       *)
(* SpecRestart).                                                           *)
(***************************************************************************)
\* C23: the first ledger operation on a new calendar day works on a daily
\* P&L reset to zero: canOpenNewPosition decides as if the counter were 0,
\* resolvePosition leaves the counter at the pnl of that resolution, and
\* addPosition leaves it at 0.
C23_DailyResetOnFirstTouch ==
    [][Today # dailyStartDate =>
          /\ lastGate'.calls # lastGate.calls =>
                lastGate'.result =
                    ~(GetTotalExposure + lastGate'.size * lastGate'.price
                         > maxTotalExposure)
          /\ (/\ resolveCalls' # resolveCalls
              /\ lastResolve'.positionId \in DOMAIN positions) =>
                dailyPnL' = ResolutionPnL(positions[lastResolve'.positionId],
                                          lastResolve'.isWinner)
          /\ nextTradeId' # nextTradeId => dailyPnL' = 0]_vars

\* C24: a position, once created, stays in the ledger with the same id,
\* market id, token id, size, entry price and time; only its status changes,
\* and only in a resolvePosition call for that position.
C24_PositionRecordsStable ==
    [][\A id \in DOMAIN positions :
          /\ id \in DOMAIN positions'
          /\ [positions'[id] EXCEPT !.status = positions[id].status]
                = positions[id]
          /\ positions'[id].status # positions[id].status =>
                /\ resolveCalls' # resolveCalls
                /\ lastResolve'.positionId = id]_vars

\* C24 witness: after a restart on the next day the ledger holds the first
\* position, resolved, and the second, still open, with the sizes and prices
\* of their trades.
C24_Witness ==
    /\ restarts = 1
    /\ now = DayMs
    /\ DOMAIN positions = {1, 2}
    /\ positions[1].status = "RESOLVED_WIN"
    /\ positions[2].status = "OPEN"
    /\ \A id \in {1, 2} : /\ positions[id].entryPrice = 980
                          /\ positions[id].size = 100000
                          /\ positions[id].id = id
                          /\ positions[id].timestamp = 0

C26_DailyPnLSurvivesRestart ==
    [][(restarts' # restarts /\ Today = dailyStartDate) =>
          /\ dailyPnL' = dailyPnL
          /\ CanOpenNewPosition(defaultOrderSize, 500)'
                = CanOpenNewPosition(defaultOrderSize, 500)]_vars

C28_WatchlistReplacedAtomically ==
    [][/\ watchedMarkets' # watchedMarkets =>
             LET eligible == FilterEligibleMarkets(lastScan'.markets,
                                                   lastScan'.at)
             IN  /\ lastScan'.at = now
                 /\ scansInFlight' = scansInFlight - 1
                 /\ DOMAIN watchedMarkets' =
                       {eligible[i].id : i \in DOMAIN eligible}
                 /\ UNCHANGED <<detVars, subscribedAssets>>
       /\ Len(bookFetches') > Len(bookFetches) =>
             LET chain == bookFetches'[Len(bookFetches')]
             IN  Len(chain) > 1 =>
                    {chain[i] : i \in DOMAIN chain} = HighPriceTokenIds
       /\ subscribedAssets' # subscribedAssets =>
             subscribedAssets' = subscribedAssets \cup GetTokenIds]_vars

\* C28 witness: a refresh cycle that listed the tokens of m1 and m2 has
\* checked the first and is still under way when a scan has replaced the
\* watchlist {m1, m2} by {m2}.
C28_Witness ==
    /\ DOMAIN watchedMarkets = {"m2"}
    /\ lastScan.markets # <<>>
    /\ bookFetches = <<(<<"t3">>)>>
    /\ lastAnalysis.tokenId = "t1"
    /\ subscribedAssets = {"t1", "t2", "t3"}

(***************************************************************************)
(* Claims about the stored market snapshots (SpecScanner).                 *)
(***************************************************************************)
\* C29: after a scan has completed, every watched market is stored as the
\* market of that id in the list that scan fetched (prices, end time,
\* flags), with the highest-priced token of that market cached.
C29_SnapshotsSuperseded ==
    lastScan # NoScan =>
        \A id \in DOMAIN watchedMarkets :
            \E i \in DOMAIN lastScan.markets :
                /\ lastScan.markets[i].id = id
                /\ watchedMarkets[id].market = lastScan.markets[i]
                /\ watchedMarkets[id].highPriceToken
                      = FindHighPriceToken(lastScan.markets[i])

(***************************************************************************)
(* Claims about getHighPriceTokens (SpecTokens).                           *)
(***************************************************************************)
\* C30: the list getHighPriceTokens returns to a refresh cycle holds exactly
\* one token per watched market; that token has the highest price among the
\* tokens stored for the market, and of tokens tied at that price it is the
\* first; the call leaves the watchlist as it was.
C30_HighPriceTokens ==
    [][Len(bookFetches') > Len(bookFetches) =>
          LET chain == bookFetches'[Len(bookFetches')]
          IN  /\ Len(chain) = Cardinality(DOMAIN watchedMarkets)
              /\ \A id \in DOMAIN watchedMarkets :
                    LET tokens == watchedMarkets[id].market.tokens
                    IN  \E i \in DOMAIN chain, k \in DOMAIN tokens :
                           /\ chain[i] = tokens[k].tokenId
                           /\ \A j \in DOMAIN tokens :
                                 /\ tokens[j].price <= tokens[k].price
                                 /\ j < k => tokens[j].price < tokens[k].price
              /\ UNCHANGED watchedMarkets]_vars

\* C30 witness: with a market whose two tokens tie at 0.99 and a second
\* market watched, a refresh cycle lists two tokens, the first token of the
\* tied market among them.
C30_Witness ==
    /\ DOMAIN watchedMarkets = {"m1", "m2"}
    /\ watchedMarkets["m1"].market.tokens[1].price
          = watchedMarkets["m1"].market.tokens[2].price
    /\ \E i \in DOMAIN bookFetches :
          /\ Len(bookFetches[i]) = 2
          /\ \E k \in 1..2 : bookFetches[i][k] = "t1"

(***************************************************************************)
(* Claims about failed and overlapping scans (SpecScanRuns).               *)
(***************************************************************************)
\* C31: when getMarkets fails during scan(), the watchlist is left exactly as
\* it was, the error is caught inside scan() (start(), awaiting the first
\* scan, goes on to set the interval; a set interval stays set), and the
\* interval goes on starting scans.
C31_FailedScanHarmless ==
    [][\A k \in DOMAIN scanRuns :
          (scanRuns[k].pc = "awaiting" /\ scanRuns'[k].pc = "failed") =>
              /\ watchedMarkets' = watchedMarkets
              /\ lastScan' = lastScan
              /\ scanInterval']_vars

\* C31 witness: the first scan watched m1, the second failed and the
\* watchlist still holds m1, and the interval has started a third scan.
C31_Witness ==
    /\ Len(scanRuns) = 3
    /\ scanRuns[1].pc = "complete"
    /\ scanRuns[2].pc = "failed"
    /\ scanRuns[3].pc = "awaiting"
    /\ DOMAIN watchedMarkets = {"m1"}
    /\ scanInterval

(***************************************************************************)
(* Claims about persistence failures (SpecSaveFails).                      *)
(***************************************************************************)
\* C32: when saveState fails inside addPosition or resolvePosition (the files
\* do not hold what memory holds afterwards), the operation still completes:
\* memory holds the new position and totalTrades + 1, or the resolved status,
\* the updated counters and daily P&L, and position_opened /
\* position_resolved is emitted for that position.
C32_SaveFailureKeepsLedger ==
    [][disk' # SaveState(positions', stats') =>
          /\ nextTradeId' # nextTradeId =>
                /\ DOMAIN positions' = DOMAIN positions \cup {nextTradeId}
                /\ positions'[nextTradeId].status = "OPEN"
                /\ \A id \in DOMAIN positions : positions'[id] = positions[id]
                /\ stats'.totalTrades = stats.totalTrades + 1
                /\ ledgerEvents' = [count |-> ledgerEvents.count + 1,
                                    name  |-> "position_opened",
                                    id    |-> nextTradeId]
          /\ (/\ resolveCalls' # resolveCalls
              /\ lastResolve'.positionId \in DOMAIN positions) =>
                LET id  == lastResolve'.positionId
                    win == lastResolve'.isWinner
                    pnl == ResolutionPnL(positions[id], win)
                IN  /\ positions'[id].status =
                          IF win THEN "RESOLVED_WIN" ELSE "RESOLVED_LOSS"
                    /\ stats'.winningTrades + stats'.losingTrades
                          = stats.winningTrades + stats.losingTrades + 1
                    /\ dailyPnL' = dailyPnL + pnl
                    /\ ledgerEvents' = [count |-> ledgerEvents.count + 1,
                                        name  |-> "position_resolved",
                                        id    |-> id]]_vars

\* C32 witness: no write has ever succeeded (the files are as at start), yet
\* the ledger holds two positions, one of them resolved, the daily P&L of
\* that resolution, and three events have been emitted.
C32_Witness ==
    /\ disk = [positions |-> <<>>, stats |-> InitStats]
    /\ DOMAIN positions = {1, 2}
    /\ positions[1].status = "RESOLVED_LOSS"
    /\ positions[2].status = "OPEN"
    /\ stats.totalTrades = 2
    /\ stats.losingTrades = 1
    /\ dailyPnL < 0
    /\ ledgerEvents.count = 3

(***************************************************************************)
(* Claims about disconnect() (SpecFeedHost).                               *)
(***************************************************************************)
\* C33: disconnect() leaves the subscription set empty, and from then until
\* connect() is called again (this.ws is null all that time) no reconnect
\* attempt is scheduled and no socket is created.
C33_NoReconnectAfterDisconnect ==
    [][/\ (ws'.state = "NONE" /\ ws.state # "NONE") => subscribedAssets' = {}
       /\ (ws.state = "NONE" /\ hostCalls' = hostCalls) =>
             /\ ws'.state = "NONE"
             /\ Len(reconnectTimers') <= Len(reconnectTimers)]_vars

\* C34: at most one socket with handlers attached is connecting or open.
C34_AtMostOneLiveSocket == Cardinality(LiveSockets) <= 1

(***************************************************************************)
(* Claims about subscriptions of the running bot (SpecBotFair).            *)
(***************************************************************************)
\* C35: when the watchlist holds a market whose tokens are not all in the
\* feed's subscription set while the socket is open, then eventually all
\* watched tokens are in the subscription set and a subscribe message was
\* sent for them on the socket, unless the socket stops being open first.
C35_NewMarketsGetSubscribed ==
    (ws.state = "OPEN" /\ ~(GetTokenIds \subseteq subscribedAssets))
        ~> \/ ws.state # "OPEN"
           \/ /\ GetTokenIds \subseteq subscribedAssets
              /\ GetTokenIds \subseteq ws.sent

(***************************************************************************)
(* Claims about the per-market limit (Spec).                               *)
(***************************************************************************)
\* C36: the number of OPEN positions with the same market id never exceeds
\* maxPositionsPerMarket.
C36_PerMarketLimit ==
    \A m \in MarketIds :
        Cardinality(GetPositionsByMarket(m)) <= maxPositionsPerMarket

(***************************************************************************)
(* Claims about repeated resolution (SpecLedger).                          *)
(***************************************************************************)
\* C37: a position that is not OPEN keeps its status; a resolvePosition call
\* for a position that is not OPEN, or for an unknown id, changes no status,
\* no statistic and not the daily P&L; and winningTrades + losingTrades is
\* at most the number of positions added.
C37_ResolvedOnce ==
    [][/\ \A id \in DOMAIN positions :
             positions[id].status # "OPEN" =>
                positions'[id].status = positions[id].status
       /\ (/\ resolveCalls' # resolveCalls
           /\ \/ lastResolve' = NoResolve
              \/ /\ lastResolve'.positionId \in DOMAIN positions
                 /\ positions[lastResolve'.positionId].status # "OPEN") =>
             /\ positions' = positions
             /\ stats' = stats
             /\ dailyPnL' = dailyPnL
       /\ stats'.winningTrades + stats'.losingTrades
             <= Cardinality(DOMAIN positions')]_vars

(***************************************************************************)
(* Claims about overlapping scans (SpecScanRuns).                          *)
(***************************************************************************)
\* C38: when the scan started last began while an earlier scan was awaiting
\* its fetch and every scan has completed, the watched market ids are the
\* eligible ids of the snapshot which the scan started last fetched.
C38_LaterScanWins ==
    LET last     == Len(scanRuns)
        eligible == FilterEligibleMarkets(scanRuns[last].markets, now)
    IN  (/\ last >= 2
         /\ scanRuns[last].overlaps
         /\ \A k \in DOMAIN scanRuns : scanRuns[k].pc = "complete") =>
            DOMAIN watchedMarkets = {eligible[i].id : i \in DOMAIN eligible}

(***************************************************************************)
(* Claims about the queue draining (SpecQueueLive).                        *)
(***************************************************************************)
\* C39: every opportunity passed to queueOpportunity is eventually dequeued
\* (handed to executeOpportunity or discarded as stale); a worker flag that
\* is set while the queue is empty is eventually cleared unless new items
\* arrive; and the flag is clear only when the queue is empty, so the next
\* queueOpportunity starts a drain.
C39_QueueDrains ==
    /\ \A n \in 1..MaxQueued :
          (queuedCount >= n) ~> (\E i \in DOMAIN dequeueLog :
                                    dequeueLog[i].seq = n)
    /\ (isProcessing /\ executionQueue = <<>>)
          ~> (~isProcessing \/ executionQueue # <<>>)
    /\ [](~isProcessing => (executionQueue = <<>> /\ ActiveLoops = {}))

\* C39 witness: three opportunities were queued, one was executed and one
\* discarded as stale, all three have been dequeued and the flag is clear
\* again.
C39_Witness ==
    /\ queuedCount = 3
    /\ Len(dequeueLog) = 3
    /\ \E i \in DOMAIN dequeueLog : dequeueLog[i].executed
    /\ \E i \in DOMAIN dequeueLog : ~dequeueLog[i].executed
    /\ ~isProcessing
    /\ executionQueue = <<>>
    /\ inflight = {}

(***************************************************************************)
(* Claims about the stopped detector (SpecDetector).                       *)
(***************************************************************************)
\* C40: while the detector is stopped a feed event starts no order-book check
\* (no checkOrderBook call is added) and emits no opportunity (emissions
\* rise only where a pending order-book check completes), and at any time a
\* feed event starts at most one order-book check and emits at most one
\* opportunity.
C40_StoppedDetectorSilent ==
    [][/\ (~isRunning /\ ~isRunning') =>
             /\ Len(bookFetches') <= Len(bookFetches)
             /\ bookFetches' = bookFetches => emitTotal' = emitTotal
       /\ Len(bookFetches') <= Len(bookFetches) + 1
       /\ emitTotal' <= emitTotal + 1]_vars

====
